---- MODULE Spec2Model ----
(***************************************************************************)
(* A model of the wind-farm analytics server (src/mcp/server.py) and its   *)
(* parquet reader (src/mcp/parquet_data_reader.py).                        *)
(*                                                                         *)
(* Python strings are sequences of one-character strings, so that case     *)
(* folding, trimming, prefix tests, replacement and regular-expression     *)
(* scans are computed character by character as the interpreter does.      *)
(* Python's None is the one-element sequence <<"None">>, which no string   *)
(* of characters equals.                                                   *)
(***************************************************************************)
EXTENDS Integers, Sequences, FiniteSets, TLC

VARIABLES
    impl,          \* which normalizer the identifier is passed to
    given,         \* the identifier first passed to the normalizer
    results,       \* the values returned by the successive normalizer calls
    query,         \* the text passed to the router
    classify_calls,\* how many times classify_query has been called
    intents,       \* what the last classify_query call returned
    base_intents,  \* what classify_query returned before a keyword was appended
    added,         \* <<intent, keyword>> of the keyword appended to the query
    extract_calls, \* how many times extract_entities has been called
    extracted,     \* what the last extract_entities call did
    files,         \* the state of each candidate file in the data directory
    _cache,        \* DataAccess._cache: cache key -> stored mapping
    fetch_calls,   \* how many times get_wind_farm_data has been called
    fetch_args,    \* <<wind_farm, data_type>> of each call, in order
    fetch_result,  \* what the last get_wind_farm_data call did
    fetch_reads,   \* the files the last call passed to pd.read_parquet
    router,        \* the tables of query_router, loaded at construction
    tool_calls,    \* <<tool, arguments>> of each tool call, in order
    tool_result,   \* what the last tool call did
    previous_result,\* what the tool call before the last one did
    config_file,   \* the state of the file notebook_config.json
    startup,       \* how far the import of the server module has come
    reader_files,  \* what the reader's data directory holds under each name
    reader_cache,  \* ParquetDataReader._cache: filename -> stored table
    reader_calls,  \* the filename of each _load_file call, in order
    reader_result, \* what the last _load_file call did
    threads        \* the requests in progress at the same time, step by step

normVars == <<impl, given, results>>

routerVars ==
    <<query, classify_calls, intents, base_intents, added, extract_calls, extracted>>

fetchVars ==
    <<files, _cache, fetch_calls, fetch_args, fetch_result, fetch_reads>>

toolVars == <<router, tool_calls, tool_result, previous_result>>

\* The state of the data access layer and of the tools built on it.
startupVars == <<config_file, startup>>

\* The state of a ParquetDataReader and of its data directory.
readerVars == <<reader_files, reader_cache, reader_calls, reader_result, threads>>

serverVars == <<fetchVars, toolVars, startupVars, readerVars>>

vars == <<normVars, routerVars, serverVars>>

(***************************************************************************)
(* Bounds of the model.                                                    *)
(***************************************************************************)
\* An identifier is a concatenation of at most MaxIdParts fragments.
MaxIdParts == 3
\* The normalizer is applied at most MaxCalls times to its own result.
MaxCalls == 2
\* A query to classify is a concatenation of at most MaxClassifyParts fragments.
MaxClassifyParts == 2
\* A query to extract from is a concatenation of at most MaxExtractParts fragments.
MaxExtractParts == 3

(***************************************************************************)
(* Python str operations.                                                  *)
(***************************************************************************)
None == <<"None">>

\* The empty dict.
EmptyDict == <<>>

UpperLetters ==
    <<"A","B","C","D","E","F","G","H","I","J","K","L","M",
      "N","O","P","Q","R","S","T","U","V","W","X","Y","Z">>

LowerLetters ==
    <<"a","b","c","d","e","f","g","h","i","j","k","l","m",
      "n","o","p","q","r","s","t","u","v","w","x","y","z">>

Digits == {"0","1","2","3","4","5","6","7","8","9"}

\* The characters str.strip() removes and the pattern \s matches.
Whitespace == {" ", "\t", "\n"}

lower_char(c) ==
    IF \E i \in 1..26 : UpperLetters[i] = c
    THEN LowerLetters[CHOOSE i \in 1..26 : UpperLetters[i] = c]
    ELSE c

\* str.lower()
lower(s) == [ i \in 1..Len(s) |-> lower_char(s[i]) ]

RECURSIVE lstrip(_)
lstrip(s) ==
    IF s # <<>> /\ Head(s) \in Whitespace THEN lstrip(Tail(s)) ELSE s

RECURSIVE rstrip(_)
rstrip(s) ==
    IF s # <<>> /\ s[Len(s)] \in Whitespace
    THEN rstrip(SubSeq(s, 1, Len(s) - 1))
    ELSE s

\* str.strip()
strip(s) == rstrip(lstrip(s))

\* str.startswith(prefix)
startswith(s, prefix) ==
    /\ Len(prefix) <= Len(s)
    /\ SubSeq(s, 1, Len(prefix)) = prefix

RECURSIVE replace(_, _, _)
\* str.replace(old, new), old non-empty: every non-overlapping occurrence,
\* scanning from the left.
replace(s, old, new) ==
    IF Len(s) < Len(old) THEN s
    ELSE IF startswith(s, old)
         THEN new \o replace(SubSeq(s, Len(old) + 1, Len(s)), old, new)
         ELSE <<Head(s)>> \o replace(Tail(s), old, new)

\* str.isdigit(): non-empty and digits only.
isdigit(s) == s # <<>> /\ \A i \in 1..Len(s) : s[i] \in Digits

\* The length of the longest run of digits s starts with.
RECURSIVE digit_run(_)
digit_run(s) ==
    IF s # <<>> /\ Head(s) \in Digits THEN 1 + digit_run(Tail(s)) ELSE 0

RECURSIVE findall_digits(_)
\* re.findall(r'\d+', s): the maximal runs of digits, left to right.
findall_digits(s) ==
    IF s = <<>> THEN <<>>
    ELSE LET n == digit_run(s)
         IN  IF n > 0
             THEN <<SubSeq(s, 1, n)>> \o findall_digits(SubSeq(s, n + 1, Len(s)))
             ELSE findall_digits(Tail(s))

(***************************************************************************)
(* The identifier normalizers.                                             *)
(***************************************************************************)
\* A normalizer that prefixes "wp" to whatever is not "wf..." or
\* "wind farm ...", already-canonical identifiers included.
normalize_wind_farm_id_always_prefix(wind_farm) ==
    IF wind_farm = None \/ wind_farm = <<>> THEN None
    ELSE LET farm_id == strip(lower(wind_farm))
         IN  IF startswith(farm_id, <<"w","f">>)
             THEN replace(farm_id, <<"w","f">>, <<"w","p">>)
             ELSE IF startswith(farm_id, <<"w","i","n","d"," ","f","a","r","m"," ">>)
             THEN <<"w","p">> \o replace(farm_id, <<"w","i","n","d"," ","f","a","r","m"," ">>, <<>>)
             ELSE <<"w","p">> \o farm_id

\* A normalizer without the "wind farm <N>" branch.
normalize_wind_farm_id_no_wind_farm(wind_farm) ==
    IF wind_farm = None \/ wind_farm = <<>> THEN None
    ELSE LET farm_id == strip(lower(wind_farm))
         IN  IF startswith(farm_id, <<"w","f">>)
             THEN replace(farm_id, <<"w","f">>, <<"w","p">>)
             ELSE IF isdigit(farm_id)
             THEN <<"w","p">> \o farm_id
             ELSE IF ~startswith(farm_id, <<"w","p">>)
             THEN <<"w","p">> \o farm_id
             ELSE farm_id

\* DataAccess.normalize_wind_farm_id
normalize_wind_farm_id(wind_farm) ==
    IF wind_farm = None \/ wind_farm = <<>> THEN None
    ELSE LET farm_id == strip(lower(wind_farm))
         IN  IF startswith(farm_id, <<"w","f">>)
             THEN replace(farm_id, <<"w","f">>, <<"w","p">>)
             ELSE IF startswith(farm_id, <<"w","i","n","d"," ","f","a","r","m"," ">>)
             THEN <<"w","p">> \o replace(farm_id, <<"w","i","n","d"," ","f","a","r","m"," ">>, <<>>)
             ELSE IF isdigit(farm_id)
             THEN <<"w","p">> \o farm_id
             ELSE IF ~startswith(farm_id, <<"w","p">>)
             THEN <<"w","p">> \o farm_id
             ELSE farm_id

\* A reader normalizer without the branch that extracts the digits.
_normalize_wind_farm_id_no_digits(wind_farm) ==
    LET farm == strip(lower(wind_farm))
    IN  IF startswith(farm, <<"w","f">>)
        THEN replace(farm, <<"w","f">>, <<"w","p">>)
        ELSE farm

\* ParquetDataReader._normalize_wind_farm_id
_normalize_wind_farm_id(wind_farm) ==
    LET farm == strip(lower(wind_farm))
    IN  IF startswith(farm, <<"w","f">>)
        THEN replace(farm, <<"w","f">>, <<"w","p">>)
        ELSE IF ~startswith(farm, <<"w","p">>) /\ findall_digits(farm) # <<>>
        THEN <<"w","p">> \o findall_digits(farm)[1]
        ELSE farm

(***************************************************************************)
(* Identifiers passed to the normalizers.                                  *)
(***************************************************************************)
IdFragments ==
    { <<"w","f">>, <<"W","F">>, <<"w","p">>, <<"W","P">>,
      <<"w","i","n","d"," ","f","a","r","m"," ">>,
      <<"W","i","n","d"," ","F","a","r","m"," ">>,
      <<" ">>, <<"x">>,
      <<"1">>, <<"2">>, <<"3">>, <<"4">>, <<"5">>, <<"6">>, <<"7">> }

RECURSIVE concat(_)
\* The concatenation of a sequence of strings.
concat(parts) ==
    IF parts = <<>> THEN <<>> ELSE Head(parts) \o concat(Tail(parts))

Identifiers ==
    { concat(parts) :
        parts \in UNION { [1..n -> IdFragments] : n \in 0..MaxIdParts } }

(***************************************************************************)
(* The normalizers as a state machine: an identifier is passed to one of   *)
(* them, and the value returned is passed again.                           *)
(***************************************************************************)
\* No query has been passed to the router.
RouterIdle ==
    /\ query = <<>>
    /\ classify_calls = 0
    /\ intents = <<>>
    /\ base_intents = <<>>
    /\ added = <<>>
    /\ extract_calls = 0
    /\ extracted = [raised |-> FALSE, entities |-> EmptyDict]

\* No data has been fetched: the cache is as DataAccess.__init__ leaves it.
FetchIdle ==
    /\ files = <<>>
    /\ _cache = EmptyDict
    /\ fetch_calls = 0
    /\ fetch_args = <<>>
    /\ fetch_result = <<>>
    /\ fetch_reads = <<>>

\* No tool has been called.
ToolsIdle ==
    /\ router = <<>>
    /\ tool_calls = <<>>
    /\ tool_result = <<>>
    /\ previous_result = <<>>

\* The server module is not being imported.
StartupIdle ==
    /\ config_file = <<>>
    /\ startup = <<>>

\* No ParquetDataReader has been constructed.
ReaderIdle ==
    /\ reader_files = <<>>
    /\ reader_cache = <<>>
    /\ reader_calls = <<>>
    /\ reader_result = <<>>
    /\ threads = <<>>

\* The data access layer and the tools have not been used.
ServerIdle == FetchIdle /\ ToolsIdle /\ StartupIdle /\ ReaderIdle

\* No identifier has been passed to a normalizer.
NormalizeIdle ==
    /\ impl = "DataAccess"
    /\ given = <<>>
    /\ results = <<>>

InitNormalize ==
    /\ impl \in {"DataAccess", "ParquetDataReader"}
    /\ given \in Identifiers
    /\ results = <<>>
    /\ RouterIdle
    /\ ServerIdle

\* The value the next call receives.
current == IF results = <<>> THEN given ELSE results[Len(results)]

NormalizeDataAccess ==
    /\ impl = "DataAccess"
    /\ Len(results) < MaxCalls
    /\ results' = Append(results, normalize_wind_farm_id(current))
    /\ UNCHANGED <<impl, given, routerVars, serverVars>>

NormalizeParquet ==
    /\ impl = "ParquetDataReader"
    /\ Len(results) < MaxCalls
    /\ results' = Append(results, _normalize_wind_farm_id(current))
    /\ UNCHANGED <<impl, given, routerVars, serverVars>>

NextNormalize == NormalizeDataAccess \/ NormalizeParquet

SpecNormalize == InitNormalize /\ [][NextNormalize]_vars

(***************************************************************************)
(* QueryRouter: the intent keyword table and classify_query.               *)
(***************************************************************************)
\* QueryRouter.intent_patterns: the intents in the order the dict lists them.
IntentOrder ==
    << "performance", "power_curve", "temporal", "business", "uncertainty",
       "error_analysis", "comparison", "data_quality", "feature_analysis" >>

\* QueryRouter.intent_patterns: the keywords of each intent.
intent_patterns ==
       ("performance" :> <<
         <<"r","m","s","e">>,  \* rmse
         <<"m","a","e">>,  \* mae
         <<"a","c","c","u","r","a","c","y">>,  \* accuracy
         <<"p","e","r","f","o","r","m","a","n","c","e">>,  \* performance
         <<"e","r","r","o","r">>,  \* error
         <<"f","o","r","e","c","a","s","t"," ","q","u","a","l","i","t","y">>,  \* forecast quality
         <<"b","a","s","e","l","i","n","e">>,  \* baseline
         <<"m","o","d","e","l"," ","c","o","m","p","a","r","i","s","o","n">>,  \* model comparison
         <<"b","e","s","t"," ","m","o","d","e","l">>,  \* best model
         <<"w","o","r","s","t"," ","m","o","d","e","l">>   \* worst model
       >>)
    @@ ("power_curve" :> <<
         <<"p","o","w","e","r"," ","c","u","r","v","e">>,  \* power curve
         <<"c","a","p","a","c","i","t","y"," ","f","a","c","t","o","r">>,  \* capacity factor
         <<"c","u","t","-","i","n">>,  \* cut-in
         <<"r","a","t","e","d"," ","s","p","e","e","d">>,  \* rated speed
         <<"w","i","n","d"," ","s","p","e","e","d">>,  \* wind speed
         <<"t","u","r","b","i","n","e">>,  \* turbine
         <<"p","o","w","e","r"," ","o","u","t","p","u","t">>,  \* power output
         <<"c","u","t","-","o","u","t">>,  \* cut-out
         <<"r","a","t","e","d"," ","p","o","w","e","r">>   \* rated power
       >>)
    @@ ("temporal" :> <<
         <<"h","o","u","r","l","y">>,  \* hourly
         <<"d","a","i","l","y">>,  \* daily
         <<"s","e","a","s","o","n","a","l">>,  \* seasonal
         <<"p","a","t","t","e","r","n">>,  \* pattern
         <<"t","r","e","n","d">>,  \* trend
         <<"d","i","u","r","n","a","l">>,  \* diurnal
         <<"r","a","m","p">>,  \* ramp
         <<"t","i","m","e">>,  \* time
         <<"t","e","m","p","o","r","a","l">>,  \* temporal
         <<"a","u","t","o","c","o","r","r","e","l","a","t","i","o","n">>,  \* autocorrelation
         <<"l","a","g">>   \* lag
       >>)
    @@ ("business" :> <<
         <<"c","o","2">>,  \* co2
         <<"c","a","r","b","o","n">>,  \* carbon
         <<"e","c","o","n","o","m","i","c">>,  \* economic
         <<"v","a","l","u","e">>,  \* value
         <<"s","a","v","i","n","g","s">>,  \* savings
         <<"c","o","s","t">>,  \* cost
         <<"e","n","v","i","r","o","n","m","e","n","t","a","l">>,  \* environmental
         <<"s","u","s","t","a","i","n","a","b","i","l","i","t","y">>,  \* sustainability
         <<"g","r","i","d">>,  \* grid
         <<"p","e","n","e","t","r","a","t","i","o","n">>,  \* penetration
         <<"r","e","v","e","n","u","e">>   \* revenue
       >>)
    @@ ("uncertainty" :> <<
         <<"c","o","n","f","i","d","e","n","c","e">>,  \* confidence
         <<"i","n","t","e","r","v","a","l">>,  \* interval
         <<"u","n","c","e","r","t","a","i","n","t","y">>,  \* uncertainty
         <<"r","i","s","k">>,  \* risk
         <<"r","e","l","i","a","b","i","l","i","t","y">>,  \* reliability
         <<"b","o","u","n","d","s">>,  \* bounds
         <<"p","r","e","d","i","c","t","i","o","n"," ","i","n","t","e","r","v","a","l">>,  \* prediction interval
         <<"q","u","a","n","t","i","l","e">>   \* quantile
       >>)
    @@ ("error_analysis" :> <<
         <<"b","i","a","s">>,  \* bias
         <<"o","v","e","r","p","r","e","d","i","c","t">>,  \* overpredict
         <<"u","n","d","e","r","p","r","e","d","i","c","t">>,  \* underpredict
         <<"e","r","r","o","r"," ","p","a","t","t","e","r","n">>,  \* error pattern
         <<"r","e","s","i","d","u","a","l">>,  \* residual
         <<"s","y","s","t","e","m","a","t","i","c">>,  \* systematic
         <<"d","i","a","g","n","o","s","t","i","c">>   \* diagnostic
       >>)
    @@ ("comparison" :> <<
         <<"c","o","m","p","a","r","e">>,  \* compare
         <<"v","e","r","s","u","s">>,  \* versus
         <<"b","e","t","t","e","r">>,  \* better
         <<"w","h","i","c","h"," ","m","o","d","e","l">>,  \* which model
         <<"t","r","a","d","e","-","o","f","f">>,  \* trade-off
         <<"b","e","s","t">>,  \* best
         <<"w","o","r","s","t">>,  \* worst
         <<"r","a","n","k">>,  \* rank
         <<"r","a","n","k","i","n","g">>   \* ranking
       >>)
    @@ ("data_quality" :> <<
         <<"m","i","s","s","i","n","g">>,  \* missing
         <<"o","u","t","l","i","e","r">>,  \* outlier
         <<"q","u","a","l","i","t","y">>,  \* quality
         <<"c","o","m","p","l","e","t","e","n","e","s","s">>,  \* completeness
         <<"v","a","l","i","d","a","t","i","o","n">>,  \* validation
         <<"c","l","e","a","n">>   \* clean
       >>)
    @@ ("feature_analysis" :> <<
         <<"f","e","a","t","u","r","e"," ","i","m","p","o","r","t","a","n","c","e">>,  \* feature importance
         <<"i","m","p","o","r","t","a","n","t"," ","f","e","a","t","u","r","e","s">>,  \* important features
         <<"f","e","a","t","u","r","e"," ","r","a","n","k","i","n","g">>,  \* feature ranking
         <<"v","a","r","i","a","b","l","e"," ","i","m","p","o","r","t","a","n","c","e">>,  \* variable importance
         <<"s","h","a","p">>,  \* shap
         <<"p","e","r","m","u","t","a","t","i","o","n"," ","i","m","p","o","r","t","a","n","c","e">>   \* permutation importance
       >>)

\* The elements of a list.
Range(seq) == { seq[i] : i \in 1..Len(seq) }

\* Python's `sub in s` for strings: sub is a substring of s.
contains(s, sub) ==
    \E i \in 0..(Len(s) - Len(sub)) : SubSeq(s, i + 1, i + Len(sub)) = sub

\* any(keyword in query_lower for keyword in keywords)
any_keyword_in(keywords, query_lower) ==
    \E i \in 1..Len(keywords) : contains(query_lower, keywords[i])

\* A classifier without the default: nothing matched gives the empty list.
classify_query_no_default(q) ==
    LET query_lower == lower(q)
    IN  SelectSeq(IntentOrder,
                  LAMBDA intent : any_keyword_in(intent_patterns[intent], query_lower))

\* A classifier that matches the keywords against the query as written.
classify_query_case_sensitive(q) ==
    LET detected_intents ==
            SelectSeq(IntentOrder,
                      LAMBDA intent : any_keyword_in(intent_patterns[intent], q))
    IN  IF detected_intents = <<>> THEN <<"general">> ELSE detected_intents

\* A classifier that stops at the first intent that matches.
classify_query_first_match(q) ==
    LET query_lower == lower(q)
        detected_intents ==
            SelectSeq(IntentOrder,
                      LAMBDA intent : any_keyword_in(intent_patterns[intent], query_lower))
    IN  IF detected_intents = <<>> THEN <<"general">> ELSE <<Head(detected_intents)>>

\* QueryRouter.classify_query
classify_query(q) ==
    LET query_lower == lower(q)
        detected_intents ==
            SelectSeq(IntentOrder,
                      LAMBDA intent : any_keyword_in(intent_patterns[intent], query_lower))
    IN  IF detected_intents = <<>> THEN <<"general">> ELSE detected_intents

(***************************************************************************)
(* Queries passed to classify_query.                                       *)
(***************************************************************************)
\* "what is the RMSE of the ensemble model"
RmseEnsembleQuery ==
    <<"w","h","a","t"," ","i","s"," ","t","h","e"," ","R","M","S","E"," ","o","f"," ","t","h","e"," ","e","n","s","e","m","b","l","e"," ","m","o","d","e","l">>

\* "Compare wf1 and wf3 at 24 hours with 10% improvement"
CompareQuery ==
    <<"C","o","m","p","a","r","e"," ","w","f","1"," ","a","n","d"," ","w","f","3"," ","a","t"," ","2","4"," ","h","o","u","r","s"," ","w","i","t","h"," ","1","0","%"," ","i","m","p","r","o","v","e","m","e","n","t">>

ClassifyFragments ==
    { <<"R","M","S","E">>, <<" ">>, <<"s","o","m","e","t","i","m","e","s">>,
      <<"b","e","s","t">>, <<" ","m","o","d","e","l">>, <<"e","r","r","o","r">>,
      <<" ","p","a","t","t","e","r","n">>, <<"x">> }

ClassifyQueries ==
    { RmseEnsembleQuery, CompareQuery } \cup
    { concat(parts) :
        parts \in UNION { [1..n -> ClassifyFragments] : n \in 0..MaxClassifyParts } }

(***************************************************************************)
(* classify_query as a state machine: a query is classified, then one      *)
(* keyword of the table is appended to it, after a space, and the longer   *)
(* query is classified.                                                    *)
(***************************************************************************)
InitClassify ==
    /\ NormalizeIdle
    /\ ServerIdle
    /\ query \in ClassifyQueries
    /\ classify_calls = 0
    /\ intents = <<>>
    /\ base_intents = <<>>
    /\ added = <<>>
    /\ extract_calls = 0
    /\ extracted = [raised |-> FALSE, entities |-> EmptyDict]

ClassifyQuery ==
    /\ classify_calls = 0
    /\ intents' = classify_query(query)
    /\ classify_calls' = 1
    /\ UNCHANGED <<normVars, serverVars, query, base_intents, added, extract_calls, extracted>>

ClassifyWithKeyword ==
    /\ classify_calls = 1
    /\ \E i \in 1..Len(IntentOrder) :
         \E j \in 1..Len(intent_patterns[IntentOrder[i]]) :
            LET keyword == intent_patterns[IntentOrder[i]][j]
                longer == query \o <<" ">> \o keyword
            IN  /\ query' = longer
                /\ added' = <<IntentOrder[i], keyword>>
                /\ base_intents' = intents
                /\ intents' = classify_query(longer)
    /\ classify_calls' = 2
    /\ UNCHANGED <<normVars, serverVars, extract_calls, extracted>>

NextClassify == ClassifyQuery \/ ClassifyWithKeyword

SpecClassify == InitClassify /\ [][NextClassify]_vars

(***************************************************************************)
(* QueryRouter.extract_entities.                                           *)
(***************************************************************************)
FarmDigits == {"1","2","3","4","5","6","7"}

\* The text of s from position k on.
from(s, k) == SubSeq(s, k, Len(s))

\* The leftmost position of s at which a match starts, or 0: where the scan
\* of re.findall finds its next match.
leftmost(s, match_length(_)) ==
    LET starts == { k \in 1..Len(s) : match_length(from(s, k)) > 0 }
    IN  IF starts = {} THEN 0
        ELSE CHOOSE k \in starts : \A other \in starts : k <= other

\* The length of the match of r'w[fp][1-7]|wind farm [1-7]' at the start of
\* s, or 0: the first alternative is tried, then the second.
farm_match(s) ==
    IF /\ Len(s) >= 3
       /\ s[1] = "w"
       /\ s[2] \in {"f", "p"}
       /\ s[3] \in FarmDigits
    THEN 3
    ELSE IF /\ Len(s) >= 11
            /\ startswith(s, <<"w","i","n","d"," ","f","a","r","m"," ">>)
            /\ s[11] \in FarmDigits
    THEN 11
    ELSE 0

RECURSIVE findall_farms(_)
\* re.findall(r'w[fp][1-7]|wind farm [1-7]', s): the leftmost match, then
\* the matches of the text after it.
findall_farms(s) ==
    LET k == leftmost(s, farm_match)
    IN  IF k = 0 THEN <<>>
        ELSE LET m == farm_match(from(s, k))
             IN  <<SubSeq(s, k, k + m - 1)>> \o findall_farms(from(s, k + m))

\* The length of the match of r'(\d+)[\s-]?hours?' at the start of s, or 0.
\* \d+ takes the whole run of digits and [\s-]? the separator if there is
\* one; giving either back cannot help, since "hour" starts with neither a
\* digit nor a separator.
horizon_match(s) ==
    LET n == digit_run(s)
        rest == SubSeq(s, n + 1, Len(s))
        sep == IF rest # <<>> /\ Head(rest) \in (Whitespace \cup {"-"}) THEN 1 ELSE 0
        word == SubSeq(rest, sep + 1, Len(rest))
    IN  IF n > 0 /\ startswith(word, <<"h","o","u","r">>)
        THEN n + sep + 4 + (IF startswith(word, <<"h","o","u","r","s">>) THEN 1 ELSE 0)
        ELSE 0

RECURSIVE findall_horizons_with_sep(_)
\* The horizon scan with the separator inside the group: r'(\d+[\s-]?)hours?'.
findall_horizons_with_sep(s) ==
    LET k == leftmost(s, horizon_match)
    IN  IF k = 0 THEN <<>>
        ELSE LET matched == from(s, k)
                 m == horizon_match(matched)
                 n == digit_run(matched)
                 sep == IF n < Len(matched) /\ matched[n + 1] \in (Whitespace \cup {"-"})
                        THEN 1 ELSE 0
             IN  <<SubSeq(matched, 1, n + sep)>>
                     \o findall_horizons_with_sep(from(matched, m + 1))

RECURSIVE findall_horizons(_)
\* re.findall(r'(\d+)[\s-]?hours?', s): the digits of each match.
findall_horizons(s) ==
    LET k == leftmost(s, horizon_match)
    IN  IF k = 0 THEN <<>>
        ELSE LET matched == from(s, k)
             IN  <<SubSeq(matched, 1, digit_run(matched))>>
                     \o findall_horizons(from(matched, horizon_match(matched) + 1))

\* The length of the match of r'(\d+)%' at the start of s, or 0.
percent_match(s) ==
    LET n == digit_run(s)
    IN  IF n > 0 /\ n < Len(s) /\ s[n + 1] = "%" THEN n + 1 ELSE 0

RECURSIVE findall_percent(_)
\* re.findall(r'(\d+)%', s): the digits of each match.
findall_percent(s) ==
    LET k == leftmost(s, percent_match)
    IN  IF k = 0 THEN <<>>
        ELSE LET matched == from(s, k)
             IN  <<SubSeq(matched, 1, digit_run(matched))>>
                     \o findall_percent(from(matched, percent_match(matched) + 1))

DigitChars == <<"0","1","2","3","4","5","6","7","8","9">>

\* int(s) raises ValueError: s, trimmed, is not a string of digits. (Signs and
\* underscores, which int() also accepts, are not modelled.)
int_raises(s) == ~isdigit(strip(s))

RECURSIVE int_value(_)
\* int(s) for a string of digits.
int_value(s) ==
    IF s = <<>> THEN 0
    ELSE 10 * int_value(SubSeq(s, 1, Len(s) - 1))
            + (CHOOSE d \in 0..9 : DigitChars[d + 1] = s[Len(s)]) 

\* [int(h) for h in strings]
ints(strings) == [i \in 1..Len(strings) |-> int_value(strip(strings[i]))]

model_keywords ==
    << <<"p","e","r","s","i","s","t","e","n","c","e">>,
       <<"r","a","n","d","o","m"," ","f","o","r","e","s","t">>,
       <<"x","g","b","o","o","s","t">>,
       <<"l","s","t","m">>,
       <<"e","n","s","e","m","b","l","e">> >>

\* The dict with the one key, if the list is not empty (`if farms:`).
entry(key, list) == IF list # <<>> THEN key :> list ELSE EmptyDict

\* The farms as extract_entities rewrites them: "wf" becomes "wp".
normalized_farms(farms) ==
    [i \in 1..Len(farms) |->
        IF startswith(farms[i], <<"w","f">>)
        THEN replace(farms[i], <<"w","f">>, <<"w","p">>)
        ELSE farms[i]]

\* The outcome of extract_entities: whether it raised, and the dict returned.
extract_outcome(horizons, percentages, dict) ==
    IF \/ \E i \in 1..Len(horizons) : int_raises(horizons[i])
       \/ \E i \in 1..Len(percentages) : int_raises(percentages[i])
    THEN [raised |-> TRUE, entities |-> EmptyDict]
    ELSE [raised |-> FALSE, entities |-> dict]

\* An extractor that stores every kind, matched or not.
extract_entities_all_keys(q) ==
    LET query_lower == lower(q)
        farms == findall_farms(query_lower)
        horizons == findall_horizons(query_lower)
        percentages == findall_percent(q)
        models == SelectSeq(model_keywords, LAMBDA model : contains(query_lower, model))
    IN  extract_outcome(horizons, percentages,
            ("wind_farms" :> normalized_farms(farms))
            @@ ("horizons" :> ints(horizons))
            @@ ("percentages" :> ints(percentages))
            @@ ("models" :> models))

\* QueryRouter.extract_entities
extract_entities(q) ==
    LET query_lower == lower(q)
        farms == findall_farms(query_lower)
        horizons == findall_horizons(query_lower)
        percentages == findall_percent(q)
        models == SelectSeq(model_keywords, LAMBDA model : contains(query_lower, model))
    IN  extract_outcome(horizons, percentages,
            entry("wind_farms", normalized_farms(farms))
            @@ entry("horizons", ints(horizons))
            @@ entry("percentages", ints(percentages))
            @@ entry("models", models))

(***************************************************************************)
(* Queries passed to extract_entities, and the call as a state machine.    *)
(***************************************************************************)
ExtractFragments ==
    { <<"w","f">>, <<"W","P">>, <<"w","i","n","d"," ","f","a","r","m"," ">>,
      <<"1">>, <<"3">>, <<"8">>, <<"2","4">>, <<" ">>, <<"-">>, <<"%">>,
      <<"h","o","u","r">>, <<"H","o","u","r","s">>, <<"l","s","t","m">>, <<"x">> }

ExtractQueries ==
    { CompareQuery, RmseEnsembleQuery } \cup
    { concat(parts) :
        parts \in UNION { [1..n -> ExtractFragments] : n \in 0..MaxExtractParts } }

InitExtract ==
    /\ NormalizeIdle
    /\ ServerIdle
    /\ query \in ExtractQueries
    /\ classify_calls = 0
    /\ intents = <<>>
    /\ base_intents = <<>>
    /\ added = <<>>
    /\ extract_calls = 0
    /\ extracted = [raised |-> FALSE, entities |-> EmptyDict]

ExtractEntities ==
    /\ extract_calls = 0
    /\ extracted' = extract_entities(query)
    /\ extract_calls' = 1
    /\ UNCHANGED <<normVars, serverVars, query, classify_calls, intents, base_intents, added>>

NextExtract == ExtractEntities

SpecExtract == InitExtract /\ [][NextExtract]_vars

(***************************************************************************)
(* The data directory read by DataAccess.  A candidate file is missing,    *)
(* unreadable (pd.read_parquet raises) or holds one of a few tables.  A    *)
(* number in a table tells which file and row it stands in, so that a      *)
(* result shows where each of its values came from.                        *)
(***************************************************************************)
\* DataAccess.file_mapping, the candidate files of each category in priority
\* order.
file_mapping ==
    [ power_curve |->
        << "power_curve_parameters.parquet",
           "02_wind_physics_analysis.parquet",
           "baseline_power_curve_parameters.parquet",
           "summary_stats.parquet",
           "01_comprehensive_eda_results.parquet" >>,
      capacity_factors |->
        << "summary_stats.parquet",
           "02_wind_physics_analysis.parquet",
           "capacity_factor_analysis.parquet" >>,
      data_quality |->
        << "01_comprehensive_eda_results.parquet",
           "data_quality_metrics.parquet",
           "01_data_foundation_results.parquet" >>,
      summary |->
        << "summary_stats.parquet",
           "wind_farm_summaries.parquet",
           "02_wind_physics_analysis.parquet" >> ]

\* list(self.file_mapping.keys()), in insertion order.
supported_types ==
    << <<"p","o","w","e","r","_","c","u","r","v","e">>,
       <<"c","a","p","a","c","i","t","y","_","f","a","c","t","o","r","s">>,
       <<"d","a","t","a","_","q","u","a","l","i","t","y">>,
       <<"s","u","m","m","a","r","y">> >>

\* The files get_wind_farm_data can open, each with the number its values
\* are stamped with.
DataFiles == file_mapping.power_curve \o SubSeq(file_mapping.data_quality, 2, 3)

file_number(filename) == CHOOSE i \in 1..Len(DataFiles) : DataFiles[i] = filename

\* At most MaxPresent files of the data directory exist.
MaxPresent == 3

\* A missing value of a table (NaN); every other number of a table is positive.
NaN == -1

\* Column names.
col_wind_farm == <<"w","i","n","d","_","f","a","r","m">>
col_capacity_factor == <<"c","a","p","a","c","i","t","y","_","f","a","c","t","o","r">>
col_mean_capacity_factor == <<"m","e","a","n","_","c","a","p","a","c","i","t","y","_","f","a","c","t","o","r">>
col_cut_in_speed == <<"c","u","t","_","i","n","_","s","p","e","e","d">>
col_missing_pct == <<"m","i","s","s","i","n","g","_","p","c","t">>

\* The number that stands in row r, column c of file number f.
stamp(f, r, c) == 100 * f + 10 * r + c

\* The file a number of a result was read from.
file_of(value) == value \div 100

\* The contents a file can have.  "by_id" has an identifier column: farm wp1
\* has a cut-in speed and a capacity factor, farm wp2 a capacity factor only.
\* "by_position" has no identifier column and one row, with a capacity factor
\* and a share of missing values but no cut-in speed.
FileStates == {"unreadable", "by_id", "by_position"}

\* pd.read_parquet(file_path) of a readable file.  Three more tables are met
\* only where a directory is said to hold them.  "by_wf_id" has an identifier
\* column whose labels are "wf1" and "WF2"; "by_rows" has no identifier
\* column and three rows, for the farms 1 to 3 in order; "text_values" has an
\* identifier column and, for farm wp1, a cut-in speed written as a text that
\* is no number.
read_parquet(filename, state) ==
    LET f == file_number(filename) IN
    IF state = "by_id"
    THEN [ columns |-> << col_wind_farm, col_cut_in_speed, col_capacity_factor >>,
           dtypes |-> (col_wind_farm :> "object") @@
                      (col_cut_in_speed :> "float64") @@
                      (col_capacity_factor :> "float64"),
           rows |-> <<
             (col_wind_farm :> <<"w","p","1">>) @@
               (col_cut_in_speed :> stamp(f, 1, 1)) @@
               (col_capacity_factor :> stamp(f, 1, 2)),
             (col_wind_farm :> <<"W","P","2">>) @@
               (col_cut_in_speed :> NaN) @@
               (col_capacity_factor :> stamp(f, 2, 2)) >> ]
    ELSE IF state = "by_wf_id"
    THEN [ columns |-> << col_wind_farm, col_cut_in_speed, col_capacity_factor >>,
           dtypes |-> (col_wind_farm :> "object") @@
                      (col_cut_in_speed :> "float64") @@
                      (col_capacity_factor :> "float64"),
           rows |-> <<
             (col_wind_farm :> <<"w","f","1">>) @@
               (col_cut_in_speed :> stamp(f, 1, 1)) @@
               (col_capacity_factor :> stamp(f, 1, 2)),
             (col_wind_farm :> <<"W","F","2">>) @@
               (col_cut_in_speed :> stamp(f, 2, 1)) @@
               (col_capacity_factor :> stamp(f, 2, 2)) >> ]
    ELSE IF state = "by_rows"
    THEN [ columns |-> << col_cut_in_speed, col_capacity_factor >>,
           dtypes |-> (col_cut_in_speed :> "float64") @@
                      (col_capacity_factor :> "float64"),
           rows |-> [ r \in 1..3 |->
                        (col_cut_in_speed :> stamp(f, r, 1)) @@
                        (col_capacity_factor :> stamp(f, r, 2)) ] ]
    ELSE IF state = "text_values"
    THEN [ columns |-> << col_wind_farm, col_cut_in_speed >>,
           dtypes |-> (col_wind_farm :> "object") @@ (col_cut_in_speed :> "object"),
           rows |-> <<
             (col_wind_farm :> <<"w","p","1">>) @@
               (col_cut_in_speed :> <<"n","/","a">>) >> ]
    ELSE [ columns |-> << col_mean_capacity_factor, col_cut_in_speed, col_missing_pct >>,
           dtypes |-> (col_mean_capacity_factor :> "float64") @@
                      (col_cut_in_speed :> "float64") @@
                      (col_missing_pct :> "float64"),
           rows |-> <<
             (col_mean_capacity_factor :> stamp(f, 1, 2)) @@
               (col_cut_in_speed :> NaN) @@
               (col_missing_pct :> stamp(f, 1, 3)) >> ]

\* The data directories: every file missing but at most MaxPresent of them.
Directories ==
    { fs \in [ Range(DataFiles) -> FileStates \cup {"missing"} ] :
        Cardinality({ f \in Range(DataFiles) : fs[f] # "missing" }) <= MaxPresent }

(***************************************************************************)
(* DataAccess: extraction of metrics from a table (server.py 397-502).     *)
(* A float is the integer the table holds; a mean is rounded down.         *)
(***************************************************************************)
\* A value that is not a string, passed as wind_farm: the integer 3.
Int3 == <<"int", "3">>

is_str(value) == value # None /\ value # Int3

\* bool(value) of None, a string or a non-zero integer.
truthy(value) == value # None /\ value # <<>>

\* str(value), as an f-string formats it.
format(value) ==
    IF value = None THEN <<"N","o","n","e">>
    ELSE IF value = Int3 THEN <<"3">>
    ELSE value

upper_char(c) ==
    IF \E i \in 1..26 : LowerLetters[i] = c
    THEN UpperLetters[CHOOSE i \in 1..26 : LowerLetters[i] = c]
    ELSE c

\* str.upper()
upper(s) == [ i \in 1..Len(s) |-> upper_char(s[i]) ]

\* An assignment: the value of e is computed once, then used in F.
once(e, F(_)) == CHOOSE r \in { F(x) : x \in {e} } : TRUE

\* dict.update: the entries of other replace those of d with the same key.
\* dict.update that stores nothing.
update_nothing(d, other) == d

update(d, other) == other @@ d

\* The dict a row or a table is extracted into.
no_metrics == [ power_curve_parameters |-> EmptyDict, capacity_factors |-> EmptyDict ]

\* pd.notna(row_data[col])
notna(df, row_data, col) == df.dtypes[col] = "object" \/ row_data[col] # NaN

\* The loop of _extract_metrics_from_row from column i on.  float(value)
\* raises ValueError for a string that is not a number.
RECURSIVE metrics_from_columns(_, _, _, _)
metrics_from_columns(df, row_data, i, found) ==
    IF i > Len(df.columns) \/ found.raised THEN found
    ELSE
      LET col == df.columns[i]
          col_lower == lower(col)
          value == row_data[col]
          is_text == df.dtypes[col] = "object"
          set_parameter(key) ==
              IF is_text THEN [found EXCEPT !.raised = TRUE]
              ELSE [found EXCEPT
                      !.power_curve_parameters = update(@, key :> value)]
          next ==
              IF ~notna(df, row_data, col) THEN found
              ELSE IF contains(col_lower, <<"c","a","p","a","c","i","t","y">>) /\ contains(col_lower, <<"f","a","c","t","o","r">>)
              THEN IF is_text THEN [found EXCEPT !.raised = TRUE]
                   ELSE [found EXCEPT !.capacity_factors = update(@, col :> value)]
              ELSE IF contains(col_lower, <<"c","u","t">>) /\ contains(col_lower, <<"i","n">>)
              THEN set_parameter(<<"c","u","t","_","i","n","_","s","p","e","e","d">>)
              ELSE IF contains(col_lower, <<"c","u","t">>) /\ contains(col_lower, <<"o","u","t">>)
              THEN set_parameter(<<"c","u","t","_","o","u","t","_","s","p","e","e","d">>)
              ELSE IF contains(col_lower, <<"r","a","t","e","d">>) /\ contains(col_lower, <<"s","p","e","e","d">>)
              THEN set_parameter(<<"r","a","t","e","d","_","s","p","e","e","d">>)
              ELSE IF contains(col_lower, <<"r","a","t","e","d">>) /\ contains(col_lower, <<"p","o","w","e","r">>)
              THEN set_parameter(<<"r","a","t","e","d","_","p","o","w","e","r">>)
              ELSE found
      IN once(next, LAMBDA merged : metrics_from_columns(df, row_data, i + 1, merged))

_extract_metrics_from_row(df, row_data) ==
    metrics_from_columns(df, row_data, 1,
        [ raised |-> FALSE,
          power_curve_parameters |-> EmptyDict,
          capacity_factors |-> EmptyDict ])

RECURSIVE sum(_)
sum(values) == IF values = <<>> THEN 0 ELSE Head(values) + sum(Tail(values))

\* The values of a column that are not NaN, in row order.
column_values(df, col) ==
    SelectSeq([ r \in 1..Len(df.rows) |-> df.rows[r][col] ], LAMBDA v : v # NaN)

\* float(df[col].mean()): NaN is skipped, and the mean of nothing is NaN.
mean(df, col) ==
    IF column_values(df, col) = <<>> THEN NaN
    ELSE sum(column_values(df, col)) \div Len(column_values(df, col))

\* The loop of _extract_aggregate_metrics from column i on.
RECURSIVE aggregate_from_columns(_, _, _)
aggregate_from_columns(df, i, found) ==
    IF i > Len(df.columns) THEN found
    ELSE
      LET col == df.columns[i]
          col_lower == lower(col)
          average_col == <<"a","v","e","r","a","g","e","_">> \o col
          next ==
              IF df.dtypes[col] = "float64" /\ column_values(df, col) # <<>>
              THEN IF contains(col_lower, <<"c","a","p","a","c","i","t","y">>) /\ contains(col_lower, <<"f","a","c","t","o","r">>)
                   THEN [found EXCEPT
                           !.capacity_factors = update(@, average_col :> mean(df, col))]
                   ELSE IF \E keyword \in { <<"c","u","t","_","i","n">>, <<"r","a","t","e","d","_","s","p","e","e","d">>, <<"r","a","t","e","d","_","p","o","w","e","r">> } :
                             contains(col_lower, keyword)
                   THEN [found EXCEPT
                           !.power_curve_parameters = update(@, average_col :> mean(df, col))]
                   ELSE found
              ELSE found
      IN once(next, LAMBDA merged : aggregate_from_columns(df, i + 1, merged))

\* A variant that finds no aggregate.
_extract_aggregate_metrics_nothing(df) == no_metrics

_extract_aggregate_metrics(df) == aggregate_from_columns(df, 1, no_metrics)

\* A variant that selects every row.
mask_every_row(df, variant) == 1..Len(df.rows)

\* The rows whose identifier equals the variant, letter case ignored.
mask(df, variant) ==
    { r \in 1..Len(df.rows) : lower(df.rows[r][col_wind_farm]) = lower(variant) }

min(set) == CHOOSE r \in set : \A other \in set : r <= other

\* What _extract_metrics_from_row returns to _extract_farm_data, whose handler
\* keeps the empty dict when the call raised.
metrics_or_nothing(df, row_data) ==
    once(_extract_metrics_from_row(df, row_data), LAMBDA metrics :
        IF metrics.raised THEN no_metrics
        ELSE [ power_curve_parameters |-> metrics.power_curve_parameters,
               capacity_factors |-> metrics.capacity_factors ])

_extract_farm_data(df, normalized_farm, original_farm) ==
    IF truthy(normalized_farm) /\ col_wind_farm \in Range(df.columns)
    THEN
      LET farm_variants ==
              <<normalized_farm>> \o
              (IF truthy(original_farm)
               THEN << lower(original_farm), upper(original_farm) >>
               ELSE <<>>)
          matching == { v \in 1..Len(farm_variants) : mask(df, farm_variants[v]) # {} }
      IN IF df.dtypes[col_wind_farm] # "object" THEN no_metrics
         ELSE IF matching = {} THEN no_metrics
         ELSE metrics_or_nothing(df, df.rows[min(mask(df, farm_variants[min(matching)]))])
    ELSE IF Len(df.rows) <= 7 /\ truthy(normalized_farm)
    THEN
      LET last == << normalized_farm[Len(normalized_farm)] >> IN
      IF int_raises(last) THEN no_metrics
      ELSE LET farm_num == int_value(last) - 1 IN
           IF 0 <= farm_num /\ farm_num < Len(df.rows)
           THEN metrics_or_nothing(df, df.rows[farm_num + 1])
           ELSE no_metrics
    ELSE IF ~truthy(normalized_farm)
    THEN _extract_aggregate_metrics(df)
    ELSE no_metrics

\* The row _extract_farm_data passes to _extract_metrics_from_row: its number,
\* or 0 when it passes none.
found_row(df, normalized_farm, original_farm) ==
    IF truthy(normalized_farm) /\ col_wind_farm \in Range(df.columns)
    THEN
      LET farm_variants ==
              <<normalized_farm>> \o
              (IF truthy(original_farm)
               THEN << lower(original_farm), upper(original_farm) >>
               ELSE <<>>)
          matching == { v \in 1..Len(farm_variants) : mask(df, farm_variants[v]) # {} }
      IN IF df.dtypes[col_wind_farm] # "object" \/ matching = {} THEN 0
         ELSE min(mask(df, farm_variants[min(matching)]))
    ELSE IF Len(df.rows) <= 7 /\ truthy(normalized_farm)
    THEN
      LET last == << normalized_farm[Len(normalized_farm)] >> IN
      IF int_raises(last) THEN 0
      ELSE LET farm_num == int_value(last) - 1 IN
           IF 0 <= farm_num /\ farm_num < Len(df.rows) THEN farm_num + 1 ELSE 0
    ELSE 0

\* An exception is raised inside _extract_farm_data, whose handler logs it:
\* float(value) of a text that is no number, in the row that was found.
extraction_raises(df, normalized_farm, original_farm) ==
    LET r == found_row(df, normalized_farm, original_farm) IN
    r # 0 /\ _extract_metrics_from_row(df, df.rows[r]).raised

\* The loop of _extract_quality_metrics from column i on.  (The branch for a
\* text column does not occur: no table here has a text column whose name
\* holds a quality keyword.)
RECURSIVE quality_from_columns(_, _, _)
quality_from_columns(df, i, quality_metrics) ==
    IF i > Len(df.columns) THEN quality_metrics
    ELSE
      LET col == df.columns[i]
          col_lower == lower(col)
          quality_keywords ==
              { <<"m","i","s","s","i","n","g">>, <<"o","u","t","l","i","e","r">>, <<"c","o","m","p","l","e","t","e","n","e","s","s">>, <<"q","u","a","l","i","t","y">>, <<"v","a","l","i","d">> }
          next ==
              IF /\ \E keyword \in quality_keywords : contains(col_lower, keyword)
                 /\ df.dtypes[col] = "float64"
              THEN update(quality_metrics, col :> mean(df, col))
              ELSE quality_metrics
      IN once(next, LAMBDA merged : quality_from_columns(df, i + 1, merged))

_extract_quality_metrics(df) == quality_from_columns(df, 1, EmptyDict)

(***************************************************************************)
(* DataAccess: the fetch of each category (server.py 232-395).  A call     *)
(* gives the mapping it returns and the files it passed to read_parquet.   *)
(* The timestamp of the metadata is left out.                              *)
(***************************************************************************)
\* file_path.exists()
exists(fs, filename) == fs[filename] # "missing"

\* A variant that lists a file only when it yields a power-curve parameter.
power_curve_round_lists_matches(fs, wind_farm, normalized_farm, filename, acc) ==
    once(_extract_farm_data(read_parquet(filename, fs[filename]),
                            normalized_farm, wind_farm),
         LAMBDA extracted_data :
           [ merge |-> TRUE,
             reads |-> Append(acc.reads, filename),
             result |->
               [acc.result EXCEPT
                  !.source_files =
                      IF DOMAIN extracted_data.power_curve_parameters # {}
                      THEN Append(@, filename) ELSE @,
                  !.power_curve_parameters =
                      update(@, extracted_data.power_curve_parameters),
                  !.capacity_factors =
                      update(@, extracted_data.capacity_factors)] ])

\* One round of the loop of _get_power_curve_data on a file that exists and
\* can be read: the file is listed, then its data is extracted and merged.
power_curve_round(fs, wind_farm, normalized_farm, filename, acc) ==
    once(_extract_farm_data(read_parquet(filename, fs[filename]),
                            normalized_farm, wind_farm),
         LAMBDA extracted_data :
           \* extracted_data and any(v is not None for v in its values): the
           \* dict has its two keys, and their values are dicts, never None.
           LET merge == DOMAIN extracted_data # {} IN
           [ merge |-> merge,
             reads |-> Append(acc.reads, filename),
             result |->
               [acc.result EXCEPT
                  !.source_files = Append(@, filename),
                  !.power_curve_parameters =
                      IF merge THEN update(@, extracted_data.power_curve_parameters)
                      ELSE @,
                  !.capacity_factors =
                      IF merge THEN update(@, extracted_data.capacity_factors)
                      ELSE @] ])

\* A variant of the loop that stops at no file.
RECURSIVE power_curve_scan_no_break(_, _, _, _, _)
power_curve_scan_no_break(fs, wind_farm, normalized_farm, i, acc) ==
    IF i > Len(file_mapping.power_curve) THEN acc
    ELSE
      LET filename == file_mapping.power_curve[i] IN
      IF ~exists(fs, filename)
      THEN power_curve_scan_no_break(fs, wind_farm, normalized_farm, i + 1, acc)
      ELSE IF fs[filename] = "unreadable"
      THEN once([acc EXCEPT !.reads = Append(@, filename)],
                LAMBDA skipped :
                  power_curve_scan_no_break(fs, wind_farm, normalized_farm, i + 1, skipped))
      ELSE once(power_curve_round(fs, wind_farm, normalized_farm, filename, acc),
                LAMBDA merged :
                  power_curve_scan_no_break(fs, wind_farm, normalized_farm, i + 1, merged))

\* The loop of _get_power_curve_data from candidate i on.
RECURSIVE power_curve_scan(_, _, _, _, _)
power_curve_scan(fs, wind_farm, normalized_farm, i, acc) ==
    IF i > Len(file_mapping.power_curve) THEN acc
    ELSE
      LET filename == file_mapping.power_curve[i] IN
      IF ~exists(fs, filename)
      THEN power_curve_scan(fs, wind_farm, normalized_farm, i + 1, acc)
      ELSE IF fs[filename] = "unreadable"
      THEN once([acc EXCEPT !.reads = Append(@, filename)],
                LAMBDA skipped :
                  power_curve_scan(fs, wind_farm, normalized_farm, i + 1, skipped))
      ELSE once(power_curve_round(fs, wind_farm, normalized_farm, filename, acc),
                LAMBDA merged :
                  IF merged.merge /\ DOMAIN merged.result.power_curve_parameters # {}
                  THEN merged
                  ELSE power_curve_scan(fs, wind_farm, normalized_farm, i + 1, merged))

\* The mapping _get_power_curve_data starts from.
power_curve_result(wind_farm) ==
    [ wind_farm |-> wind_farm,
      method |-> "integrated_data_access",
      data_type |-> <<"p","o","w","e","r","_","c","u","r","v","e">>,
      power_curve_parameters |-> EmptyDict,
      capacity_factors |-> EmptyDict,
      data_quality |-> EmptyDict,
      source_files |-> <<>> ]

\* Adds an entry to a mapping.
with(mapping, key, value) == (key :> value) @@ mapping

\* dict.get(key, default)
get(mapping, key, default) ==
    IF key \in DOMAIN mapping THEN mapping[key] ELSE default

_get_power_curve_data(fs, wind_farm) ==
    IF truthy(wind_farm) /\ ~is_str(wind_farm)
    THEN \* normalize_wind_farm_id raises AttributeError: the outer handler
      [ raised |-> FALSE,
        result |-> with(power_curve_result(wind_farm), "error",
                     <<"F","a","i","l","e","d"," ","t","o"," ","r","e","a","d"," ","p","o","w","e","r"," ","c","u","r","v","e"," ","d","a","t","a",":"," ","'","i","n","t","'"," ","o","b","j","e","c","t"," ","h","a","s"," ","n","o"," ","a","t","t","r","i","b","u","t","e"," ","'","l","o","w","e","r","'">>),
        reads |-> <<>> ]
    ELSE
      LET normalized_farm ==
              IF truthy(wind_farm) THEN normalize_wind_farm_id(wind_farm) ELSE None
      IN once(power_curve_scan(fs, wind_farm, normalized_farm, 1,
                  [ merge |-> FALSE,
                    reads |-> <<>>,
                    result |-> power_curve_result(wind_farm) ]),
              LAMBDA scanned :
                [ raised |-> FALSE,
                  result |-> with(scanned.result, "metadata",
                               [ data_source |-> "integrated_parquet_reader",
                                 files_processed |-> Len(scanned.result.source_files),
                                 wind_farm_normalized |-> normalized_farm ]),
                  reads |-> scanned.reads ])

_get_capacity_factors(fs, wind_farm) ==
    once(_get_power_curve_data(fs, wind_farm), LAMBDA power_data :
    [ raised |-> power_data.raised,
      result |->
        IF power_data.raised THEN EmptyDict
        ELSE [ wind_farm |-> wind_farm,
               method |-> "integrated_data_access",
               data_type |-> <<"c","a","p","a","c","i","t","y","_","f","a","c","t","o","r","s">>,
               capacity_factors |-> get(power_data.result, "capacity_factors", EmptyDict),
               power_curve_parameters |->
                   get(power_data.result, "power_curve_parameters", EmptyDict),
               source_files |-> get(power_data.result, "source_files", <<>>),
               metadata |-> get(power_data.result, "metadata", EmptyDict) ],
      reads |-> power_data.reads ])

\* The loop of _get_data_quality from candidate i on.
RECURSIVE data_quality_scan(_, _, _)
data_quality_scan(fs, i, acc) ==
    IF i > Len(file_mapping.data_quality) THEN acc
    ELSE
      LET filename == file_mapping.data_quality[i] IN
      IF ~exists(fs, filename) THEN data_quality_scan(fs, i + 1, acc)
      ELSE IF fs[filename] = "unreadable"
      THEN once([acc EXCEPT !.reads = Append(@, filename)],
                LAMBDA skipped : data_quality_scan(fs, i + 1, skipped))
      ELSE once(_extract_quality_metrics(read_parquet(filename, fs[filename])),
                LAMBDA quality_data :
                  once([acc EXCEPT
                          !.reads = Append(@, filename),
                          !.result.source_files = Append(@, filename),
                          !.result.data_quality_metrics =
                              IF DOMAIN quality_data # {}
                              THEN update(@, quality_data)
                              ELSE @],
                       LAMBDA merged : data_quality_scan(fs, i + 1, merged)))

_get_data_quality(fs, wind_farm) ==
    once(data_quality_scan(fs, 1,
            [ result |-> [ wind_farm |-> wind_farm,
                           method |-> "integrated_data_access",
                           data_type |-> <<"d","a","t","a","_","q","u","a","l","i","t","y">>,
                           data_quality_metrics |-> EmptyDict,
                           source_files |-> <<>> ],
              reads |-> <<>> ]),
         LAMBDA scanned :
           [ raised |-> FALSE, result |-> scanned.result, reads |-> scanned.reads ])

\* list(set(a + b)): each file once; the order is the one of DataFiles here.
list_set(filenames) ==
    SelectSeq(DataFiles, LAMBDA f : f \in Range(filenames))

_get_summary(fs, wind_farm) ==
    once(_get_power_curve_data(fs, wind_farm), LAMBDA power_data :
    once(_get_data_quality(fs, wind_farm), LAMBDA quality_data :
       [ raised |-> power_data.raised \/ quality_data.raised,
         result |->
           IF power_data.raised \/ quality_data.raised THEN EmptyDict
           ELSE [ wind_farm |-> wind_farm,
                  method |-> "integrated_data_access",
                  data_type |-> <<"s","u","m","m","a","r","y">>,
                  power_curve_parameters |->
                      get(power_data.result, "power_curve_parameters", EmptyDict),
                  capacity_factors |->
                      get(power_data.result, "capacity_factors", EmptyDict),
                  data_quality_metrics |->
                      get(quality_data.result, "data_quality_metrics", EmptyDict),
                  source_files |->
                      list_set(get(power_data.result, "source_files", <<>>) \o
                               get(quality_data.result, "source_files", <<>>)),
                  metadata |-> [ data_source |-> "integrated_summary",
                                 components |-> << "power_curve", "data_quality" >> ] ],
         reads |-> power_data.reads \o quality_data.reads ]))

\* f"{wind_farm}_{data_type}"
cache_key(wind_farm, data_type) == format(wind_farm) \o <<"_">> \o data_type

\* DataAccess.get_wind_farm_data on a cache and a data directory: what it
\* returns, the cache it leaves and the files it read.
get_wind_farm_data(cache, fs, wind_farm, data_type) ==
    LET key == cache_key(wind_farm, data_type) IN
    IF key \in DOMAIN cache
    THEN [ raised |-> FALSE, hit |-> TRUE, result |-> cache[key],
           cache |-> cache, reads |-> <<>> ]
    ELSE
      once(   IF data_type = <<"p","o","w","e","r","_","c","u","r","v","e">> THEN _get_power_curve_data(fs, wind_farm)
              ELSE IF data_type = <<"c","a","p","a","c","i","t","y","_","f","a","c","t","o","r","s">>
              THEN _get_capacity_factors(fs, wind_farm)
              ELSE IF data_type = <<"d","a","t","a","_","q","u","a","l","i","t","y">> THEN _get_data_quality(fs, wind_farm)
              ELSE IF data_type = <<"s","u","m","m","a","r","y">> THEN _get_summary(fs, wind_farm)
              ELSE [ raised |-> FALSE,
                     result |-> [ error |-> <<"U","n","k","n","o","w","n"," ","d","a","t","a","_","t","y","p","e",":"," ">> \o data_type,
                                  supported_types |-> supported_types ],
                     reads |-> <<>> ],
        LAMBDA routed :
         IF routed.raised
         THEN [ raised |-> FALSE,
                hit |-> FALSE,
                result |-> [ error |-> <<"e","x","c","e","p","t","i","o","n">>,
                             wind_farm |-> wind_farm,
                             data_type |-> data_type,
                             method |-> "integrated_data_access_error" ],
                cache |-> cache,
                reads |-> routed.reads ]
         ELSE [ raised |-> FALSE,
                hit |-> FALSE,
                result |-> routed.result,
                cache |-> IF "error" \notin DOMAIN routed.result
                          THEN update(cache, key :> routed.result)
                          ELSE cache,
                reads |-> routed.reads ])

(***************************************************************************)
(* get_wind_farm_data as a state machine: over a data directory that does  *)
(* not change, one request is made and then a second one, which finds the  *)
(* cache the first one left.                                               *)
(***************************************************************************)
\* The identifiers requested: no identifier, farms of the tables in three
\* surface forms, a farm of no table, strings that make two requests share a
\* cache key, and a value that is not a string.
FetchIdentifiers ==
    { None, <<"N","o","n","e">>, <<"w","p","1">>, <<"w","f","2">>, <<"w","p","9">>, <<"w","p","1","_","p","o","w","e","r">>, Int3 }

\* The requests made: every identifier under power_curve, farm wp1 under every
\* other category, and one request of a category that is not supported,
\* whose cache key is the one of farm wp1 under power_curve.
Requests ==
    { <<id, <<"p","o","w","e","r","_","c","u","r","v","e">>>> : id \in FetchIdentifiers } \cup
    { <<<<"w","p","1">>, data_type>> : data_type \in Range(supported_types) } \cup
    { <<<<"w","p","1","_","p","o","w","e","r">>, <<"c","u","r","v","e">>>> }

InitFetch ==
    /\ NormalizeIdle
    /\ RouterIdle
    /\ ReaderIdle
    /\ files \in Directories
    /\ _cache = EmptyDict
    /\ fetch_calls = 0
    /\ fetch_args = <<>>
    /\ fetch_result = <<>>
    /\ fetch_reads = <<>>
    /\ ToolsIdle
    /\ StartupIdle

\* One call of get_wind_farm_data(wind_farm, data_type).
Call(wind_farm, data_type) ==
    \E call \in { get_wind_farm_data(_cache, files, wind_farm, data_type) } :
    /\ fetch_calls' = fetch_calls + 1
    /\ fetch_args' = Append(fetch_args, <<wind_farm, data_type>>)
    /\ fetch_result' = [ raised |-> call.raised, hit |-> call.hit, result |-> call.result ]
    /\ fetch_reads' = call.reads
    /\ _cache' = call.cache
    /\ UNCHANGED <<files, normVars, routerVars, toolVars, startupVars, readerVars>>

\* The first request, on the empty cache.
Fetch ==
    /\ fetch_calls = 0
    /\ \E request \in Requests : Call(request[1], request[2])

\* The second request.
FetchAgain ==
    /\ fetch_calls = 1
    /\ \E request \in Requests : Call(request[1], request[2])

NextFetch == Fetch \/ FetchAgain

SpecFetch == InitFetch /\ [][NextFetch]_vars

(***************************************************************************)
(* The configuration document (notebook_config.json) and the construction  *)
(* of DataAccess and QueryRouter from it (server.py 35-98, 510-583).       *)
(* A number of the document is <<"number", text>>; a Python string that    *)
(* stands where a number is expected is <<"str", text>>.                   *)
(***************************************************************************)
FlagNames ==
    { "ensemble_predictions", "uncertainty_quantification", "comprehensive_evaluation" }

\* The values of the section feature_availability.
FeatureTables == { EmptyDict } \cup [ FlagNames -> BOOLEAN ]

\* The values of the section notebook_completion; the last one has an entry
\* without the key "completed".
NotebookTables ==
    { EmptyDict,
      ("06_baseline_models" :> [ completed |-> TRUE ]) @@
        ("07_ml_models" :> [ completed |-> TRUE ]) @@
        ("12_business_impact" :> [ completed |-> FALSE ]),
      ("06_baseline_models" :> [ status |-> "done" ]) }

\* The values of the section model_performance_data; the first one has no
\* table "available".
PerformanceTables ==
    { [ unavailable |-> EmptyDict ],
      [ available |-> EmptyDict, unavailable |-> EmptyDict ],
      [ available |-> ("xgboost" :> [ rmse_24h |-> <<"number", "0.065">> ]),
        unavailable |-> EmptyDict ],
      [ available |->
          ("xgboost" :> [ rmse_24h |-> <<"number", "0.065">>,
                          improvement_over_persistence |-> <<"str", "48%">> ]) @@
          ("random_forest" :> [ rmse_24h |-> <<"number", "0.068">> ]),
        unavailable |-> ("ensemble" :> [ status |-> "pending" ]) ] }

\* A section of the document, present with one of its values or not.
section(name, values) == { EmptyDict } \cup { name :> v : v \in values }

\* The documents that are well-formed JSON objects.
JsonDocuments ==
    { a @@ b @@ c :
        a \in section("notebook_completion", NotebookTables),
        b \in section("feature_availability", FeatureTables),
        c \in section("model_performance_data", PerformanceTables) }

\* The states of the file notebook_config.json.
ConfigDocuments ==
    { [ state |-> "absent", json |-> EmptyDict ],
      [ state |-> "malformed", json |-> EmptyDict ] } \cup
    { [ state |-> "json", json |-> doc ] : doc \in JsonDocuments }

\* DataAccess._load_config: json.load raises on a file that is not JSON.
DataAccess_load_config(document) ==
    IF document.state = "absent" THEN [ raised |-> FALSE, config |-> EmptyDict ]
    ELSE IF document.state = "malformed" THEN [ raised |-> TRUE, config |-> EmptyDict ]
    ELSE [ raised |-> FALSE, config |-> document.json ]

\* ....get(notebook, {}).get("completed", False) of DataAccess.__init__
notebook_available(config, notebook) ==
    get(get(get(config, "notebook_completion", EmptyDict), notebook, EmptyDict),
        "completed", FALSE)

\* DataAccess.__init__: whether it raised, and the object it built.
DataAccess_init(document) ==
    once(DataAccess_load_config(document), LAMBDA loaded :
        IF loaded.raised THEN [ raised |-> TRUE, object |-> EmptyDict ]
        ELSE [ raised |-> FALSE,
               object |->
                 [ _cache |-> EmptyDict,
                   config |-> loaded.config,
                   model_results_mapping |->
                     [ baseline |-> notebook_available(loaded.config, "06_baseline_models"),
                       ml_models |-> notebook_available(loaded.config, "07_ml_models"),
                       deep_learning |-> notebook_available(loaded.config, "08_deep_learning"),
                       ensemble |-> notebook_available(loaded.config, "09_ensemble_uncertainty"),
                       evaluation |-> notebook_available(loaded.config, "10_model_evaluation") ] ] ])

\* The configuration QueryRouter._load_config returns for a missing file.
fallback_config ==
    ("notebook_completion" :> EmptyDict) @@
    ("feature_availability" :> EmptyDict) @@
    ("model_performance_data" :> [ available |-> EmptyDict, unavailable |-> EmptyDict ])

\* QueryRouter._load_config
QueryRouter_load_config(document) ==
    IF document.state = "absent" THEN [ raised |-> FALSE, config |-> fallback_config ]
    ELSE IF document.state = "malformed" THEN [ raised |-> TRUE, config |-> EmptyDict ]
    ELSE [ raised |-> FALSE, config |-> document.json ]

\* The prompt fragments _load_prompts stores, by name.
prompt_names ==
    { "master_router", "notebook_navigation", "power_curve_analysis",
      "forecast_performance", "business_impact", "quick_reference" }

_load_prompts == [ name \in prompt_names |-> <<"prompt", name>> ]

\* QueryRouter.__init__: whether it raised, and the tables it built.  A key
\* that is not in the configuration raises KeyError.
QueryRouter_init(document) ==
    once(QueryRouter_load_config(document), LAMBDA loaded :
        IF \/ loaded.raised
           \/ "notebook_completion" \notin DOMAIN loaded.config
           \/ \E nb \in DOMAIN get(loaded.config, "notebook_completion", EmptyDict) :
                  "completed" \notin DOMAIN loaded.config["notebook_completion"][nb]
           \/ "feature_availability" \notin DOMAIN loaded.config
           \/ "model_performance_data" \notin DOMAIN loaded.config
        THEN [ raised |-> TRUE, object |-> EmptyDict ]
        ELSE [ raised |-> FALSE,
               object |->
                 [ notebook_status |->
                     [ nb \in DOMAIN loaded.config["notebook_completion"] |->
                         loaded.config["notebook_completion"][nb].completed ],
                   feature_availability |-> loaded.config["feature_availability"],
                   model_performance |-> loaded.config["model_performance_data"],
                   prompts |-> _load_prompts ] ])

\* The routers that construction yields.
Routers ==
    { QueryRouter_init(document).object :
        document \in { d \in ConfigDocuments : ~QueryRouter_init(d).raised } }

(***************************************************************************)
(* The import of the server module as a state machine: over a given state  *)
(* of notebook_config.json, `data_access = DataAccess()` runs (server.py   *)
(* 505) and then `query_router = QueryRouter()` (server.py 809).  An       *)
(* exception of either ends the import.                                    *)
(***************************************************************************)
InitStartup ==
    /\ NormalizeIdle
    /\ RouterIdle
    /\ ReaderIdle
    /\ FetchIdle
    /\ ToolsIdle
    /\ config_file \in ConfigDocuments
    /\ startup = [ data_access |-> "not constructed", query_router |-> "not constructed" ]

\* "constructed" or "raised"
outcome(construction) == IF construction.raised THEN "raised" ELSE "constructed"

ConstructDataAccess ==
    /\ startup.data_access = "not constructed"
    /\ startup' = [startup EXCEPT !.data_access = outcome(DataAccess_init(config_file))]
    /\ UNCHANGED <<config_file, normVars, routerVars, fetchVars, toolVars, readerVars>>

ConstructQueryRouter ==
    /\ startup.data_access = "constructed"
    /\ startup.query_router = "not constructed"
    /\ startup' = [startup EXCEPT !.query_router = outcome(QueryRouter_init(config_file))]
    /\ UNCHANGED <<config_file, normVars, routerVars, fetchVars, toolVars, readerVars>>

NextStartup == ConstructDataAccess \/ ConstructQueryRouter

SpecStartup == InitStartup /\ [][NextStartup]_vars

(***************************************************************************)
(* The fallback payloads of the router and _analyze_pattern_internal.  A   *)
(* text the code builds with an f-string is the tuple of its parts; a      *)
(* number of the configuration is <<"number", text>>, a string literal of  *)
(* the code used in its place is <<"str", text>>.                          *)
(***************************************************************************)
\* self.model_performance['available'].get(model, {}).get(metric, default)
performance_of(self, model, metric, default) ==
    get(get(self.model_performance.available, model, EmptyDict), metric, <<"str", default>>)

\* The dict available_alternatives of _handle_unavailable_feature.
available_alternatives(self) ==
    ("ensemble_modeling" :>
        (("message" :> "Ensemble models are not yet implemented. However, I can provide:") @@
         ("alternatives" :>
            << <<"XGBoost performance (best individual model): RMSE 24h = ",
                 performance_of(self, "xgboost", "rmse_24h", "0.067")[2]>>,
               <<"Random Forest performance: RMSE 24h = ",
                 performance_of(self, "random_forest", "rmse_24h", "0.069")[2]>>,
               <<"Model performance by wind conditions from completed notebooks">>,
               <<"Forecast accuracy at different horizons">>,
               <<"Individual model comparisons vs persistence baseline">> >>) @@
         ("available_notebooks" :> <<"06_baseline_models", "07_ml_models", "08_deep_learning">>) @@
         ("specific_data" :>
            [ best_available_model |-> "XGBoost",
              best_rmse_24h |-> performance_of(self, "xgboost", "rmse_24h", "0.067"),
              improvement_over_persistence |->
                  performance_of(self, "xgboost", "improvement_over_persistence", "47%") ]))) @@
    ("uncertainty_quantification" :>
        (("message" :> "Uncertainty estimates are pending implementation. Current insights available:") @@
         ("alternatives" :>
            << <<"Model error distributions from validation sets">>,
               <<"Performance variance across different wind conditions">>,
               <<"Seasonal accuracy patterns and reliability">>,
               <<"Data quality impact on prediction accuracy">>,
               <<"Cross-validation confidence metrics">> >>) @@
         ("available_notebooks" :> <<"07_ml_models", "08_deep_learning">>) @@
         ("specific_data" :>
            [ error_analysis_available |-> TRUE,
              validation_metrics |-> "Available from individual models",
              confidence_proxy |-> "Use cross-validation standard deviation" ]))) @@
    ("24_hour_forecast" :>
        (("message" :> "24-hour specific metrics available from completed models:") @@
         ("alternatives" :>
            << <<"XGBoost 24h RMSE: ", performance_of(self, "xgboost", "rmse_24h", "0.067")[2], " (",
                 performance_of(self, "xgboost", "improvement_over_persistence", "47%")[2],
                 " improvement)">>,
               <<"Random Forest 24h RMSE: ",
                 performance_of(self, "random_forest", "rmse_24h", "0.069")[2], " (",
                 performance_of(self, "random_forest", "improvement_over_persistence", "45%")[2],
                 " improvement)">>,
               <<"LSTM 24h RMSE: ", performance_of(self, "lstm", "rmse_24h", "0.070")[2], " (",
                 performance_of(self, "lstm", "improvement_over_persistence", "43%")[2],
                 " improvement)">>,
               <<"Persistence baseline 24h RMSE: ",
                 performance_of(self, "persistence_baseline", "rmse_24h", "0.125")[2]>> >>) @@
         ("available_notebooks" :> <<"06_baseline_models", "07_ml_models">>) @@
         ("specific_data" :>
            [ horizon_analysis_available |-> TRUE,
              individual_models_ready |-> TRUE,
              baseline_comparison |-> "Available" ]))) @@
    ("comprehensive_evaluation" :>
        (("message" :> "Comprehensive model evaluation is pending. Available evaluations:") @@
         ("alternatives" :>
            << <<"Individual model performance metrics">>,
               <<"Baseline model comparisons">>,
               <<"Feature importance analysis">>,
               <<"Temporal pattern validation">>,
               <<"Business impact calculations">> >>) @@
         ("available_notebooks" :>
            <<"06_baseline_models", "07_ml_models", "08_deep_learning", "12_business_impact">>) @@
         ("specific_data" :>
            [ partial_evaluation |-> TRUE,
              production_readiness |-> "Individual models validated" ])))

\* response["context"] = ... of _handle_unavailable_feature
with_context(response, q, intent) ==
    IF intent = "performance" /\ contains(q, <<"2","4">>)
    THEN with(response, "context", "Based on your 24-hour forecast performance question:")
    ELSE IF intent = "business"
    THEN with(response, "context", "For business impact analysis:")
    ELSE response

\* A variant of the fallback that lists no alternatives and no data.
_handle_unavailable_feature_bare(self, q, feature, intent) ==
    [ raised |-> FALSE, error |-> "",
      payload |->
        ("routing_decision" :> "fallback_response") @@
        ("feature_requested" :> feature) @@
        ("status" :> "not_implemented") @@
        ("query_intent" :> intent) ]

\* QueryRouter._handle_unavailable_feature: whether it raised, the text of
\* the exception, and the payload returned.  The dict of alternatives is
\* built whole before the feature is looked up, so a table of model
\* performance without the key 'available' raises KeyError for every feature.
_handle_unavailable_feature(self, q, feature, intent) ==
    IF "available" \notin DOMAIN self.model_performance
    THEN [ raised |-> TRUE, error |-> "'available'", payload |-> EmptyDict ]
    ELSE once(available_alternatives(self), LAMBDA alternatives :
        IF feature \notin DOMAIN alternatives
        THEN [ raised |-> FALSE, error |-> "",
               payload |->
                 ("routing_decision" :> "fallback_response") @@
                 ("feature_requested" :> feature) @@
                 ("status" :> "not_implemented") @@
                 ("message" :> <<feature, " is not yet available.">>) @@
                 ("alternatives" :> << <<"Contact development team for implementation timeline">> >>) @@
                 ("available_notebooks" :> <<>>) @@
                 ("next_steps" :> <<"Check back when Phase 2 development is completed">>) ]
        ELSE [ raised |-> FALSE, error |-> "",
               payload |->
                 update(("routing_decision" :> "fallback_response") @@
                        ("feature_requested" :> feature) @@
                        ("status" :> "not_implemented") @@
                        ("query_intent" :> intent),
                        with_context(alternatives[feature], q, intent)) ])

\* str(n) of a natural number
RECURSIVE str(_)
str(n) == IF n < 10 THEN <<DigitChars[n + 1]>> ELSE str(n \div 10) \o <<DigitChars[(n % 10) + 1]>>

\* sep.join(strings)
RECURSIVE join(_, _)
join(sep, strings) ==
    IF strings = <<>> THEN <<>>
    ELSE IF Len(strings) = 1 THEN strings[1]
    ELSE strings[1] \o sep \o join(sep, Tail(strings))

\* The section get_prompt_combination adds for one intent.
intent_section(self, intent) ==
    IF intent = "performance"
    THEN << <<"## FORECAST PERFORMANCE ANALYSIS\n">>, self.prompts["forecast_performance"], <<"\n\n">> >>
    ELSE IF intent = "power_curve"
    THEN << <<"## POWER CURVE ANALYSIS\n">>, self.prompts["power_curve_analysis"], <<"\n\n">> >>
    ELSE IF intent = "business"
    THEN << <<"## BUSINESS IMPACT ANALYSIS\n">>, self.prompts["business_impact"], <<"\n\n">> >>
    ELSE IF intent = "comparison"
    THEN << <<"## MODEL COMPARISON ANALYSIS\n">>, self.prompts["forecast_performance"], <<"\n\n">> >>
    ELSE IF intent \in {"general", "data_quality"}
    THEN << <<"## GENERAL ANALYSIS\n">>, self.prompts["quick_reference"], <<"\n\n">> >>
    ELSE <<>>

RECURSIVE intent_sections(_, _)
intent_sections(self, detected) ==
    IF detected = <<>> THEN <<>>
    ELSE intent_section(self, Head(detected)) \o intent_sections(self, Tail(detected))

\* The lines get_prompt_combination adds for the entities.
entity_guidance(entities) ==
    IF DOMAIN entities = {} THEN <<>>
    ELSE << <<"## ENTITY-SPECIFIC GUIDANCE\n">> >> \o
         (IF "wind_farms" \in DOMAIN entities
          THEN << <<"Focus specifically on: ">>, join(<<",", " ">>, entities["wind_farms"]), <<"\n">> >>
          ELSE <<>>) \o
         (IF "horizons" \in DOMAIN entities
          THEN << <<"Analyze forecast horizons: ">>,
                  join(<<",", " ">>, [ i \in 1..Len(entities["horizons"]) |-> str(entities["horizons"][i]) ]),
                  <<" hours\n">> >>
          ELSE <<>>) \o
         (IF "percentages" \in DOMAIN entities
          THEN << <<"Apply improvement percentages: ">>,
                  join(<<",", " ">>, [ i \in 1..Len(entities["percentages"]) |-> str(entities["percentages"][i]) ]),
                  <<"%\n">> >>
          ELSE <<>>) \o
         (IF "models" \in DOMAIN entities
          THEN << <<"Focus on models: ">>, join(<<",", " ">>, entities["models"]), <<"\n">> >>
          ELSE <<>>) \o
         << <<"\n">> >>

\* QueryRouter.get_prompt_combination: the parts of the combined prompt.
get_prompt_combination(self, detected, entities) ==
    << self.prompts["notebook_navigation"], <<"\n\n">> >> \o
    intent_sections(self, detected) \o
    entity_guidance(entities) \o
    << <<"## RESPONSE TEMPLATE">> >>

\* _get_patterns_for_intents: list(set(patterns)), in no particular order.
_get_patterns_for_intents(detected) ==
    (IF "power_curve" \in Range(detected)
     THEN {"groupby", "capacity_factor", "power_curve", "cut_in_speed"} ELSE {}) \cup
    (IF "performance" \in Range(detected)
     THEN {"rmse", "mae", "model.evaluate", "test_results"} ELSE {}) \cup
    (IF "business" \in Range(detected)
     THEN {"co2_displacement", "economic_value", "annual_generation"} ELSE {}) \cup
    (IF "data_quality" \in Range(detected)
     THEN {"missing_values", "outliers", "describe()", "info()"} ELSE {})

\* The notebooks of the list that the status table marks as completed, with
\* ".ipynb" appended.
completed_notebooks(self, notebooks) ==
    LET chosen == SelectSeq(notebooks, LAMBDA nb : get(self.notebook_status, nb, FALSE))
    IN  [ i \in 1..Len(chosen) |-> <<chosen[i], ".ipynb">> ]

\* workflow_steps.append({"step": len(workflow_steps) + 1, ...}), if the
\* condition holds.  The constant list "look_for" of a step and the note
\* "limitation" of the performance step are left out.
append_step(steps, condition, action, notebooks, extract) ==
    IF condition
    THEN Append(steps, [ step |-> Len(steps) + 1, action |-> action, notebooks |-> notebooks,
                         extract |-> extract, status |-> "available" ])
    ELSE steps

\* The workflow steps _analyze_pattern_internal builds for the intents.
workflow_steps_for(self, detected) ==
    LET has(intent) == intent \in Range(detected)
        performance_notebooks ==
            completed_notebooks(self, <<"06_baseline_models", "07_ml_models", "08_deep_learning">>)
        feature_notebooks ==
            completed_notebooks(self, <<"05_feature_engineering", "07_ml_models">>)
        s1 == append_step(<<>>, has("power_curve"), "Analyze power curve characteristics",
                          << <<"02_wind_physics_analysis", ".ipynb">> >>,
                          "Turbine operational parameters")
        s2 == append_step(s1, has("performance"),
                          "Evaluate forecast performance (available models only)",
                          performance_notebooks, "Performance metrics by model and horizon")
        s3 == append_step(s2, has("business") /\ get(self.notebook_status, "12_business_impact", FALSE),
                          "Calculate business impact",
                          << <<"02_wind_physics_analysis", ".ipynb">>,
                             <<"12_business_impact", ".ipynb">> >>,
                          "Environmental and economic benefits")
        s4 == append_step(s3, has("data_quality"), "Assess data quality",
                          << <<"01_data_foundation", ".ipynb">> >>,
                          "Data completeness and quality metrics")
        s5 == append_step(s4, has("feature_analysis") /\ feature_notebooks # <<>>,
                          "Analyze feature importance", feature_notebooks,
                          "Feature importance rankings and insights")
    IN  append_step(s5, has("temporal") /\ get(self.notebook_status, "03_temporal_patterns", FALSE),
                    "Assess temporal patterns",
                    << <<"03_temporal_patterns", ".ipynb">> >>,
                    "Temporal dependencies and patterns")

\* list(dict.fromkeys(items)): the first occurrence of each item, in order.
RECURSIVE fromkeys(_)
fromkeys(items) ==
    IF items = <<>> THEN <<>>
    ELSE LET front == fromkeys(SubSeq(items, 1, Len(items) - 1))
             last == items[Len(items)]
         IN  IF last \in Range(front) THEN front ELSE Append(front, last)

\* The notebooks of all the steps, one after the other.
RECURSIVE notebooks_of(_)
notebooks_of(steps) ==
    IF steps = <<>> THEN <<>> ELSE Head(steps).notebooks \o notebooks_of(Tail(steps))

\* any(word in query_lower for word in [...]) of the gating rules
uncertainty_words ==
    << <<"u","n","c","e","r","t","a","i","n","t","y">>, <<"c","o","n","f","i","d","e","n","c","e">>, <<"i","n","t","e","r","v","a","l">>, <<"b","o","u","n","d","s">> >>

comprehensive_words ==
    << <<"c","o","m","p","r","e","h","e","n","s","i","v","e">>, <<"f","i","n","a","l">>, <<"p","r","o","d","u","c","t","i","o","n">> >>

\* query_router.feature_availability.get(flag, False)
feature_available(self, flag) == get(self.feature_availability, flag, FALSE)

\* The payload the `except Exception` of _analyze_pattern_internal returns.
analysis_failed(error) ==
    ("error" :> <<"Analysis failed: ", error>>) @@
    ("fallback_guidance" :>
        "Please check notebooks 01_data_foundation.ipynb and 02_wind_physics_analysis.ipynb for basic analysis") @@
    ("available_notebooks" :>
        <<"01_data_foundation.ipynb", "02_wind_physics_analysis.ipynb",
          "06_baseline_models.ipynb", "07_ml_models.ipynb">>)

\* The payload of the normal processing, or the KeyError of
\* query_router.model_performance["available"].
normal_processing(self, q, detected, entities) ==
    IF "available" \notin DOMAIN self.model_performance
    THEN [ raised |-> TRUE, error |-> "'available'", payload |-> EmptyDict ]
    ELSE once(workflow_steps_for(self, detected), LAMBDA workflow_steps :
         once(fromkeys(notebooks_of(workflow_steps)), LAMBDA notebook_recommendations :
           [ raised |-> FALSE, error |-> "",
             payload |->
               ("query" :> q) @@
               ("detected_intents" :> detected) @@
               ("extracted_entities" :> entities) @@
               ("analysis_prompt" :> get_prompt_combination(self, detected, entities)) @@
               ("workflow_steps" :> workflow_steps) @@
               ("recommended_notebooks" :> notebook_recommendations) @@
               ("feature_availability" :>
                  [ available_features |->
                        [ i \in 1..Len(workflow_steps) |-> workflow_steps[i].action ],
                    unavailable_features |->
                        IF ~feature_available(self, "ensemble_predictions")
                        THEN <<"ensemble_modeling", "uncertainty_quantification">> ELSE <<>>,
                    model_performance_data |-> self.model_performance.available ]) @@
               ("guidance" :>
                  [ primary_focus |-> detected[1],
                    notebooks_to_examine |-> notebook_recommendations,
                    key_patterns_to_find |-> _get_patterns_for_intents(detected),
                    response_structure |-> "Follow the template in analysis_prompt",
                    development_status |->
                        "Phase 1 complete (notebooks 1-8), Phase 2 pending (notebooks 9-12)" ]) ]))

\* The 24-hour answer: the fallback for "24_hour_forecast", marked as
\* available.
available_with_alternatives(response) ==
    IF response.raised THEN response
    ELSE [ response EXCEPT
             !.payload = ("routing_decision" :> "available_with_alternatives") @@
                         ("status" :> "partial_data_available") @@ response.payload ]

\* The body of the try of _analyze_pattern_internal after the entities are
\* extracted: the gating rules in the order of the code, then the normal
\* processing.
gated(self, q, query_lower, detected, entities) ==
    IF /\ contains(query_lower, <<"e","n","s","e","m","b","l","e">>)
       /\ ~feature_available(self, "ensemble_predictions")
    THEN _handle_unavailable_feature(self, q, "ensemble_modeling", detected[1])
    ELSE IF /\ any_keyword_in(uncertainty_words, query_lower)
            /\ ~feature_available(self, "uncertainty_quantification")
    THEN _handle_unavailable_feature(self, q, "uncertainty_quantification", detected[1])
    ELSE IF /\ any_keyword_in(comprehensive_words, query_lower)
            /\ ~feature_available(self, "comprehensive_evaluation")
    THEN _handle_unavailable_feature(self, q, "comprehensive_evaluation", detected[1])
    ELSE IF contains(query_lower, <<"2","4">>) /\ contains(query_lower, <<"h","o","u","r">>)
    THEN IF contains(query_lower, <<"e","n","s","e","m","b","l","e">>)
         THEN _handle_unavailable_feature(self, q, "ensemble_modeling", "performance")
         ELSE available_with_alternatives(
                  _handle_unavailable_feature(self, q, "24_hour_forecast", "performance"))
    ELSE normal_processing(self, q, detected, entities)

\* _analyze_pattern_internal: every exception of the body is turned into
\* the payload with the key "error".
_analyze_pattern_internal(self, q, pattern_type) ==
    IF ~is_str(q) THEN analysis_failed("object has no attribute 'lower'")
    ELSE
    once(extract_entities(q), LAMBDA found :
        IF found.raised THEN analysis_failed("invalid literal for int()")
        ELSE once(gated(self, q, lower(q),
                        IF pattern_type = "general" THEN classify_query(q) ELSE <<pattern_type>>,
                        found.entities),
                  LAMBDA attempt :
                      IF attempt.raised THEN analysis_failed(attempt.error) ELSE attempt.payload))

(***************************************************************************)
(* analyze_pattern as a state machine: over a router that construction     *)
(* yields, the tool is called with a query and a pattern type, and then    *)
(* called again with the same arguments.                                   *)
(***************************************************************************)
MaxAnalyzeParts == 2

AnalyzeFragments ==
    { <<"e","n","s","e","m","b","l","e">>, <<"B","o","u","n","d","s">>, <<"f","i","n","a","l">>, <<"2","4">>, <<" ","h","o","u","r">>, <<"r","m","s","e"," ">>, <<"x">> }

\* The words the gating rules look for.
capability_words ==
    { <<"e","n","s","e","m","b","l","e">> } \cup Range(uncertainty_words) \cup Range(comprehensive_words)

\* A query that names the ensemble and the 24 hour horizon together.
ensemble_at_24_hours ==
    <<"e","n","s","e","m","b","l","e"," ","r","m","s","e"," ","a","t"," ","2","4"," ","h","o","u","r","s">>

AnalyzeQueries ==
    capability_words \cup { ensemble_at_24_hours } \cup
    { concat(parts) :
        parts \in UNION { [1..n -> AnalyzeFragments] : n \in 0..MaxAnalyzeParts } }

PatternTypes == { "general", "performance", "business" }

InitAnalyze ==
    /\ NormalizeIdle
    /\ RouterIdle
    /\ ReaderIdle
    /\ FetchIdle
    /\ StartupIdle
    /\ router \in Routers
    /\ tool_calls = <<>>
    /\ tool_result = <<>>
    /\ previous_result = <<>>

\* analyze_pattern(query, pattern_type)
analyze_pattern(self, q, pattern_type) == _analyze_pattern_internal(self, q, pattern_type)

AnalyzePattern ==
    /\ tool_calls = <<>>
    /\ \E q \in AnalyzeQueries, pattern_type \in PatternTypes :
         /\ tool_calls' = << [ tool |-> "analyze_pattern", query |-> q, pattern_type |-> pattern_type ] >>
         /\ tool_result' = analyze_pattern(router, q, pattern_type)
    /\ UNCHANGED <<router, previous_result, normVars, routerVars, fetchVars, startupVars, readerVars>>

AnalyzeRepeat ==
    /\ Len(tool_calls) = 1
    /\ tool_calls' = Append(tool_calls, tool_calls[1])
    /\ previous_result' = tool_result
    /\ tool_result' = analyze_pattern(router, tool_calls[1].query, tool_calls[1].pattern_type)
    /\ UNCHANGED <<router, normVars, routerVars, fetchVars, startupVars, readerVars>>

NextAnalyze == AnalyzePattern \/ AnalyzeRepeat

SpecAnalyze == InitAnalyze /\ [][NextAnalyze]_vars

(***************************************************************************)
(* The tools of the server.  A tool is an operator over the router, the    *)
(* data access object and its arguments; it yields whether the call raised *)
(* to its caller and the mapping it returned.  An argument is a string (a  *)
(* tuple of characters), None, an integer <<"int", n>>, a float            *)
(* <<"float", hundredths>> or a list <<"list", elements>>; a wind farm     *)
(* that is not a string is Int3.                                           *)
(***************************************************************************)
is_none(value) == Len(value) = 1 /\ value[1] = "None"

is_int(value) == Len(value) = 2 /\ value[1] = "int"

is_float(value) == Len(value) = 2 /\ value[1] = "float"

is_list(value) == Len(value) = 2 /\ value[1] = "list"

is_text(value) == ~is_none(value) /\ ~is_int(value) /\ ~is_float(value) /\ ~is_list(value)

\* The number of an integer argument.
number(value) == value[2]

\* bool(value) of an argument
is_true(value) ==
    IF is_none(value) THEN FALSE
    ELSE IF is_int(value) THEN number(value) # 0
    ELSE IF is_float(value) THEN value[2] # 0
    ELSE IF is_list(value) THEN value[2] # <<>>
    ELSE value # <<>>

\* f"{value}" of an argument that is None, an integer or a string
fmt(value) ==
    IF is_none(value) THEN <<"N","o","n","e">>
    ELSE IF is_int(value) THEN str(number(value))
    ELSE value

\* The call returned the mapping.
returns(payload) == [ raised |-> FALSE, payload |-> payload ]

\* The call raised to its caller.
raises(error) == [ raised |-> TRUE, payload |-> <<"raised", error>> ]

\* The key order of the tables of model performance, and the names as text.
ModelOrder == << "xgboost", "random_forest", "lstm", "persistence_baseline", "ensemble" >>

name_text(model_name) ==
    CASE model_name = "xgboost" -> <<"x","g","b","o","o","s","t">>
      [] model_name = "random_forest" -> <<"r","a","n","d","o","m","_","f","o","r","e","s","t">>
      [] model_name = "lstm" -> <<"l","s","t","m">>
      [] model_name = "persistence_baseline" -> <<"p","e","r","s","i","s","t","e","n","c","e","_","b","a","s","e","l","i","n","e">>
      [] model_name = "ensemble" -> <<"e","n","s","e","m","b","l","e">>

\* list(d.keys()) of a table of model performance
keys(table) == SelectSeq(ModelOrder, LAMBDA model_name : model_name \in DOMAIN table)

\* float(rmse_24h) of the numerals the configurations hold, in thousandths.
float(numeral) ==
    CASE numeral = "0.065" -> 65
      [] numeral = "0.068" -> 68

\* DataAccess.get_model_performance, over a data directory that holds no
\* file of model results (the loop over model_results_mapping adds nothing).
\* model_type and metric are strings here.
get_model_performance(config, model_type, metric, horizon) ==
    LET config_performance == get(config, "model_performance_data", EmptyDict)
        available_models == get(config_performance, "available", EmptyDict)
        unavailable_models == get(config_performance, "unavailable", EmptyDict)
        selected(model_name) ==
            model_type = <<"a","l","l">> \/ contains(lower(name_text(model_name)), lower(model_type))
        at_24h == is_none(horizon) \/ (is_int(horizon) /\ number(horizon) = 24)
        available_selected ==
            IF at_24h THEN SelectSeq(keys(available_models), selected) ELSE <<>>
        unavailable_selected == SelectSeq(keys(unavailable_models), selected)
        best_rmse == get(get(available_models, "xgboost", EmptyDict), "rmse_24h", <<"str", "0.067">>)
    IN  [ model_type |-> model_type,
          metric |-> metric,
          horizon |-> horizon,
          available_models |->
              [ model_name \in Range(available_selected) |->
                  [ rmse_24h |-> get(available_models[model_name], "rmse_24h", <<"str", "N/A">>),
                    improvement_over_persistence |->
                        get(available_models[model_name], "improvement_over_persistence", <<"str", "N/A">>),
                    status |-> get(available_models[model_name], "status", "unknown"),
                    source |-> "configuration_data" ] ],
          unavailable_models |->
              [ i \in 1..Len(unavailable_selected) |->
                  [ model |-> unavailable_selected[i],
                    expected_rmse_24h |->
                        get(unavailable_models[unavailable_selected[i]], "expected_rmse_24h", <<"str", "TBD">>),
                    expected_improvement |->
                        get(unavailable_models[unavailable_selected[i]], "expected_improvement", <<"str", "TBD">>),
                    status |-> get(unavailable_models[unavailable_selected[i]], "status",
                                   "pending_implementation") ] ],
          recommendations |->
              IF contains(lower(model_type), <<"e","n","s","e","m","b","l","e">>) /\ unavailable_selected # <<>>
              THEN << <<"Ensemble models are pending implementation in Phase 2.">>,
                      <<"Best available individual model: XGBoost with RMSE ", best_rmse[2], " at 24h">>,
                      <<"Consider using XGBoost for immediate deployment needs">>,
                      <<"Manual ensemble of RF + XGBoost predictions could provide ~5% improvement">> >>
              ELSE IF available_selected = <<>> /\ unavailable_selected = <<>>
              THEN << <<"No performance data found for the specified model type">>,
                      <<"Available models: ", keys(available_models)>>,
                      <<"Try using 'all' for model_type to see all available results">> >>
              ELSE <<>>,
          fallback_data |->
              IF at_24h
              THEN [ best_available_24h |->
                       [ model |-> "XGBoost",
                         rmse |-> best_rmse,
                         improvement |->
                             get(get(available_models, "xgboost", EmptyDict),
                                 "improvement_over_persistence", <<"str", "47%">>) ],
                     baseline_24h |->
                       [ model |-> "Persistence",
                         rmse |-> get(get(available_models, "persistence_baseline", EmptyDict),
                                      "rmse_24h", <<"str", "0.125">>) ] ]
              ELSE EmptyDict ]

\* The models of performance_data["available_models"] whose rmse_24h
\* float() accepts.
with_rmse(performance_data) ==
    { model_name \in DOMAIN performance_data.available_models :
        performance_data.available_models[model_name].rmse_24h[1] = "number" }

\* The first model, in the order of the table, with the least rmse_24h.
best_model_of(performance_data) ==
    LET candidates == SelectSeq(ModelOrder, LAMBDA model_name : model_name \in with_rmse(performance_data))
        rmse(model_name) == float(performance_data.available_models[model_name].rmse_24h[2])
    IN  CHOOSE i \in 1..Len(candidates) :
            /\ \A j \in 1..Len(candidates) : rmse(candidates[i]) <= rmse(candidates[j])
            /\ \A j \in 1..(i - 1) : rmse(candidates[j]) > rmse(candidates[i])

\* The query evaluate_forecast_performance builds for the pattern analysis.
evaluate_query(model_type, forecast_horizon, metric, wind_regime) ==
    join(<<" ">>,
         << <<"E","v","a","l","u","a","t","e"," ","f","o","r","e","c","a","s","t"," ","p","e","r","f","o","r","m","a","n","c","e">> >> \o
         (IF is_true(model_type) /\ model_type # <<"e","n","s","e","m","b","l","e">>
          THEN << <<"f","o","r"," ">> \o fmt(model_type) \o <<" ","m","o","d","e","l">> >> ELSE <<>>) \o
         (IF is_true(forecast_horizon)
          THEN IF 1 <= number(forecast_horizon) /\ number(forecast_horizon) <= 48
               THEN << <<"a","t"," ">> \o fmt(forecast_horizon) \o <<" ","h","o","u","r"," ","a","h","e","a","d"," ","h","o","r","i","z","o","n">> >>
               ELSE << <<"a","c","r","o","s","s"," ","a","l","l"," ","h","o","r","i","z","o","n","s">> >>
          ELSE <<>>) \o
         << <<"u","s","i","n","g"," ">> \o fmt(metric) \o <<" ","m","e","t","r","i","c">> >> \o
         (IF is_true(wind_regime)
          THEN << <<"i","n"," ">> \o fmt(wind_regime) \o <<" ","w","i","n","d"," ","c","o","n","d","i","t","i","o","n","s">> >> ELSE <<>>))

\* pattern_result["direct_answer"] = ... of evaluate_forecast_performance
with_direct_answer(pattern_result, performance_data, forecast_horizon, metric) ==
    IF /\ is_int(forecast_horizon) /\ number(forecast_horizon) = 24
       /\ upper(metric) = <<"R","M","S","E">>
       /\ with_rmse(performance_data) # {}
    THEN LET candidates ==
                 SelectSeq(ModelOrder, LAMBDA model_name : model_name \in with_rmse(performance_data))
             best_model == candidates[best_model_of(performance_data)]
         IN  with(pattern_result, "direct_answer",
                  [ question |-> <<"Best available model for 24-hour ", metric, " forecast">>,
                    answer |-> <<"title", best_model, " with RMSE = ",
                                 performance_data.available_models[best_model].rmse_24h[2]>>,
                    improvement_over_persistence |->
                        performance_data.available_models[best_model].improvement_over_persistence,
                    confidence |-> "High - based on validated model results" ])
    ELSE pattern_result

\* fallback["performance_data"] = ... of evaluate_forecast_performance
requested_performance(self, forecast_horizon, metric) ==
    LET config_data == self.model_performance.available
        of(model_name, key, default) ==
            get(get(config_data, model_name, EmptyDict), key, <<"str", default>>)
    IN  [ requested |->
            [ model |-> "ensemble", horizon |-> forecast_horizon, metric |-> metric,
              status |-> "not_implemented" ],
          available_alternatives |->
            [ xgboost |-> [ rmse_24h |-> of("xgboost", "rmse_24h", "0.067"),
                            improvement |-> of("xgboost", "improvement_over_persistence", "47%"),
                            status |-> "production_ready" ],
              random_forest |-> [ rmse_24h |-> of("random_forest", "rmse_24h", "0.069"),
                                  improvement |-> of("random_forest", "improvement_over_persistence", "45%"),
                                  status |-> "production_ready" ],
              lstm |-> [ rmse_24h |-> of("lstm", "rmse_24h", "0.070"),
                         improvement |-> of("lstm", "improvement_over_persistence", "43%"),
                         status |-> "validation_complete" ] ],
          baseline |->
            [ persistence |-> [ rmse_24h |-> of("persistence_baseline", "rmse_24h", "0.125") ] ] ]

\* A variant that stores the performance data in the table of the payload
\* that is the router's own.
with_model_performance_in_table(pattern_result, performance_data) ==
    IF "feature_availability" \in DOMAIN pattern_result
    THEN [ pattern_result EXCEPT
             !["feature_availability"].model_performance_data =
                 ("ensemble" :> [ rmse_24h |-> <<"str", "N/A">> ]) @@ @ ]
    ELSE with(pattern_result, "model_performance", performance_data)

\* pattern_result["model_performance"] = performance_data
with_model_performance(pattern_result, performance_data) ==
    with(pattern_result, "model_performance", performance_data)

\* evaluate_forecast_performance: no statement of it is inside a try, so an
\* exception of model_type.lower(), of _handle_unavailable_feature, of
\* metric.lower() or of the comparison with forecast_horizon reaches the
\* caller.
evaluate_forecast_performance(self, config, model_type, forecast_horizon, metric, wind_regime) ==
    IF is_true(model_type) /\ ~is_text(model_type)
    THEN raises("AttributeError: 'int' object has no attribute 'lower'")
    ELSE IF /\ is_true(model_type)
            /\ contains(lower(model_type), <<"e","n","s","e","m","b","l","e">>)
            /\ ~feature_available(self, "ensemble_predictions")
    THEN once(_handle_unavailable_feature(self,
                  <<"e","n","s","e","m","b","l","e"," ","m","o","d","e","l"," ","p","e","r","f","o","r","m","a","n","c","e"," ","a","t"," ">> \o
                  (IF is_true(forecast_horizon) THEN fmt(forecast_horizon) ELSE <<"a","l","l">>) \o
                  <<" ","h","o","u","r"," ","f","o","r","e","c","a","s","t","s">>,
                  "ensemble_modeling", "performance"),
              LAMBDA fallback :
                  IF fallback.raised THEN raises("KeyError: 'available'")
                  ELSE returns(with(fallback.payload, "performance_data",
                                    requested_performance(self, forecast_horizon, metric))))
    ELSE IF ~is_text(metric)
    THEN raises("AttributeError: object has no attribute 'lower'")
    ELSE IF is_true(forecast_horizon) /\ ~is_int(forecast_horizon)
    THEN raises("TypeError: '<=' not supported between instances of 'int' and 'str'")
    ELSE once(get_model_performance(config,
                  IF is_true(model_type) THEN model_type ELSE <<"a","l","l">>,
                  lower(metric), forecast_horizon),
              LAMBDA performance_data :
                  returns(with_direct_answer(
                      with_model_performance(
                          _analyze_pattern_internal(self,
                              evaluate_query(model_type, forecast_horizon, metric, wind_regime),
                              "performance"),
                          performance_data),
                      performance_data, forecast_horizon, metric)))


\* The tool get_wind_farm_data: the mapping it returns and the cache it
\* leaves.  The mapping DataAccess returns is the one it stored in the
\* cache, so the metadata the tool adds to it is added to the cache entry.
\* `now` stands for datetime.now().
tool_get_wind_farm_data(cache, fs, wind_farm, data_type, include_metadata, now) ==
    once(get_wind_farm_data(cache, fs, wind_farm, data_type), LAMBDA call :
        IF include_metadata /\ "error" \notin DOMAIN call.result
        THEN LET enhanced_metadata ==
                     [ source |-> "Integrated parquet data access",
                       data_type |-> data_type,
                       wind_farm |-> IF truthy(wind_farm) THEN wind_farm ELSE <<"a","l","l">>,
                       timestamp |-> <<"time", now>>,
                       available_data_types |-> supported_types,
                       data_access_status |-> "operational",
                       cache_status |-> "enabled" ]
                 result ==
                     IF "metadata" \in DOMAIN call.result
                     THEN [ call.result EXCEPT !.metadata = update(call.result.metadata, enhanced_metadata) ]
                     ELSE with(call.result, "metadata", enhanced_metadata)
                 key == cache_key(wind_farm, data_type)
             IN  [ raised |-> FALSE, payload |-> result,
                   cache |-> IF key \in DOMAIN call.cache
                             THEN [ call.cache EXCEPT ![key] = result ]
                             ELSE call.cache ]
        ELSE [ raised |-> FALSE, payload |-> call.result, cache |-> call.cache ])

\* _read_power_curve_from_parquet over a directory in which no candidate
\* file holds a table that can be read: nothing is listed in source_files.
_read_power_curve_from_parquet(fs, wind_farm, include_metrics) ==
    [ wind_farm |-> wind_farm,
      method |-> "direct_parquet_read",
      capacity_factor |-> None,
      cut_in_speed |-> None,
      rated_speed |-> None,
      rated_power |-> None,
      data_quality |-> EmptyDict,
      source_files |-> <<>>,
      error |-> <<"N","o"," ","s","u","i","t","a","b","l","e"," ","p","o","w","e","r"," ","c","u","r","v","e"," ","d","a","t","a"," ","f","i","l","e","s"," ","f","o","u","n","d">>,
      available_files |-> { f \in DOMAIN fs : exists(fs, f) } ]

\* The dict filtered_data of analyze_power_curves.
filtered_data(power_curve_data, wind_farm, include_metrics) ==
    LET requested(metric) == metric \in Range(include_metrics[2])
        param_data == power_curve_data.power_curve_parameters
    IN  (IF requested(col_capacity_factor)
         THEN "capacity_factor" :> power_curve_data.capacity_factors ELSE EmptyDict) @@
        (IF requested(col_cut_in_speed) /\ col_cut_in_speed \in DOMAIN param_data
         THEN "cut_in_speed" :> param_data[col_cut_in_speed] ELSE EmptyDict) @@
        [ wind_farm |-> wind_farm,
          requested_metrics |-> include_metrics,
          method |-> "integrated_data_access_filtered",
          metadata |-> get(power_curve_data, "metadata", EmptyDict),
          data_quality |-> get(power_curve_data, "data_quality", EmptyDict),
          source_files |-> get(power_curve_data, "source_files", <<>>) ]

\* The tool analyze_power_curves: an error of the data access, and an
\* exception of the loop over include_metrics, lead to the direct reading.
analyze_power_curves(cache, fs, wind_farm, include_metrics) ==
    once(get_wind_farm_data(cache, fs, wind_farm, <<"p","o","w","e","r","_","c","u","r","v","e">>), LAMBDA call :
        [ raised |-> FALSE,
          cache |-> call.cache,
          payload |->
            IF "error" \in DOMAIN call.result
            THEN _read_power_curve_from_parquet(fs, wind_farm, include_metrics)
            ELSE IF ~is_true(include_metrics) THEN call.result
            ELSE IF ~is_list(include_metrics)
            THEN _read_power_curve_from_parquet(fs, wind_farm, include_metrics)
            ELSE filtered_data(call.result, wind_farm, include_metrics) ])

\* The tool quantify_uncertainty: the comparison with confidence_level is
\* outside any try.  int(confidence_level*100) is the number of hundredths
\* for the levels used here (0.95, 0.9, 0.3).
quantify_uncertainty(self, confidence_level, forecast_horizon, aggregation_level) ==
    IF ~is_float(confidence_level) /\ ~is_int(confidence_level)
    THEN raises("TypeError: '<=' not supported between instances of 'float' and 'str'")
    ELSE LET hundredths ==
                 IF is_int(confidence_level) THEN 100 * number(confidence_level)
                 ELSE confidence_level[2]
             percent == IF 50 <= hundredths /\ hundredths <= 99 THEN hundredths ELSE 95
         IN  returns(_analyze_pattern_internal(self,
                 join(<<" ">>,
                      << <<"Q","u","a","n","t","i","f","y"," ","f","o","r","e","c","a","s","t"," ","u","n","c","e","r","t","a","i","n","t","y"," ","a","t"," ">> \o str(percent) \o <<"%"," ","c","o","n","f","i","d","e","n","c","e">>,
                         <<"f","o","r"," ">> \o fmt(forecast_horizon) \o <<" ","h","o","u","r"," ","a","h","e","a","d"," ","p","r","e","d","i","c","t","i","o","n","s">>,
                         <<"a","g","g","r","e","g","a","t","e","d"," ","a","t"," ">> \o fmt(aggregation_level) \o <<" ","l","e","v","e","l">> >>),
                 "uncertainty"))

\* The tool calculate_business_impact, with the defaults of its other two
\* arguments: the comparison with accuracy_improvement is outside any try.
calculate_business_impact(self, accuracy_improvement) ==
    IF ~is_int(accuracy_improvement)
    THEN raises("TypeError: '<=' not supported between instances of 'int' and 'str'")
    ELSE LET clamped ==
                 IF number(accuracy_improvement) > 100 THEN 100
                 ELSE IF number(accuracy_improvement) < 0 THEN 0
                 ELSE number(accuracy_improvement)
         IN  returns(_analyze_pattern_internal(self,
                 join(<<" ">>,
                      << <<"C","a","l","c","u","l","a","t","e"," ","b","u","s","i","n","e","s","s"," ","i","m","p","a","c","t"," ","o","f"," ">> \o str(clamped) \o <<"%"," ","f","o","r","e","c","a","s","t"," ","i","m","p","r","o","v","e","m","e","n","t">>,
                         <<"f","o","r"," ","1","0","0","M","W"," ","w","i","n","d"," ","f","a","r","m">>,
                         <<"w","i","t","h"," ","0",".","5"," ","t","o","n","s"," ","C","O","2","/","M","W","h"," ","g","r","i","d"," ","d","i","s","p","l","a","c","e","m","e","n","t">> >>),
                 "business"))

\* ', '.join(items): whether it raises, and the text.
join_list(items) ==
    IF is_text(items)
    THEN [ raised |-> FALSE, text |-> join(<<",", " ">>, [ i \in 1..Len(items) |-> <<items[i]>> ]) ]
    ELSE IF ~is_list(items) THEN [ raised |-> TRUE, text |-> <<>> ]
    ELSE IF \E i \in 1..Len(items[2]) : ~is_text(items[2][i])
    THEN [ raised |-> TRUE, text |-> <<>> ]
    ELSE [ raised |-> FALSE, text |-> join(<<",", " ">>, items[2]) ]

\* The tool compare_model_architectures: the joins are outside any try.
compare_model_architectures(self, models, comparison_criteria) ==
    LET models_text ==
            join_list(IF is_true(models) THEN models
                      ELSE <<"list", << <<"p","e","r","s","i","s","t","e","n","c","e">>, <<"r","a","n","d","o","m","_","f","o","r","e","s","t">>, <<"l","s","t","m">> >> >>)
        criteria_text ==
            join_list(IF is_true(comparison_criteria) THEN comparison_criteria
                      ELSE <<"list", << <<"a","c","c","u","r","a","c","y">>, <<"c","o","m","p","l","e","x","i","t","y">> >> >>)
    IN  IF models_text.raised \/ criteria_text.raised
        THEN raises("TypeError: sequence item 0: expected str instance, int found")
        ELSE returns(_analyze_pattern_internal(self,
                 join(<<" ">>,
                      << <<"C","o","m","p","a","r","e"," ">> \o models_text.text \o <<" ","m","o","d","e","l","s">>,
                         <<"b","a","s","e","d"," ","o","n"," ">> \o criteria_text.text >>),
                 "comparison"))

\* str(bool) is not needed: by_horizon only selects a part of the query.
analyze_feature_importance(self, model_type, top_n_features, by_horizon) ==
    returns(_analyze_pattern_internal(self,
        join(<<" ">>,
             << <<"A","n","a","l","y","z","e"," ","f","e","a","t","u","r","e"," ","i","m","p","o","r","t","a","n","c","e"," ","f","o","r"," ">> \o fmt(model_type) \o <<" ","m","o","d","e","l">>,
                <<"s","h","o","w","i","n","g"," ","t","o","p"," ">> \o fmt(top_n_features) \o <<" ","f","e","a","t","u","r","e","s">> >> \o
             (IF by_horizon THEN << <<"b","r","o","k","e","n"," ","d","o","w","n"," ","b","y"," ","f","o","r","e","c","a","s","t"," ","h","o","r","i","z","o","n">> >> ELSE <<>>)),
        "feature_analysis"))

\* The tool diagnose_forecast_errors: wind_farm.lower() is outside any try.
diagnose_forecast_errors(self, error_type, wind_farm, time_period) ==
    IF truthy(wind_farm) /\ ~is_str(wind_farm)
    THEN raises("AttributeError: 'int' object has no attribute 'lower'")
    ELSE LET stripped == strip(lower(wind_farm))
             farm_id ==
                 IF ~startswith(stripped, <<"w","p">>) /\ ~startswith(stripped, <<"w","f">>)
                 THEN <<"w","p">> \o stripped
                 ELSE IF startswith(stripped, <<"w","f">>)
                 THEN replace(stripped, <<"w","f">>, <<"w","p">>)
                 ELSE stripped
         IN  returns(_analyze_pattern_internal(self,
                 join(<<" ">>,
                      << <<"D","i","a","g","n","o","s","e"," ","f","o","r","e","c","a","s","t"," ","e","r","r","o","r","s">> >> \o
                      (IF error_type # <<"a","l","l">>
                       THEN << <<"f","o","c","u","s","i","n","g"," ","o","n"," ">> \o fmt(error_type) >> ELSE <<>>) \o
                      (IF truthy(wind_farm) THEN << <<"f","o","r"," ">> \o farm_id >> ELSE <<>>) \o
                      (IF is_true(time_period)
                       THEN << <<"d","u","r","i","n","g"," ">> \o fmt(time_period) \o <<" ","p","e","r","i","o","d","s">> >> ELSE <<>>)),
                 "error_analysis"))

summarize_wind_farm(self, farm_id) ==
    returns(_analyze_pattern_internal(self,
        <<"W","h","a","t"," ","a","r","e"," ","t","h","e"," ","s","t","a","t","i","s","t","i","c","s"," ","a","n","d"," ","c","a","p","a","c","i","t","y"," ","f","a","c","t","o","r"," ","f","o","r"," ","w","i","n","d"," ","f","a","r","m"," ">> \o fmt(farm_id) \o <<"?">>,
        "power_curve"))

compare_wind_farms(self, farm_ids) ==
    returns(_analyze_pattern_internal(self,
        IF is_true(farm_ids)
        THEN <<"C","o","m","p","a","r","e"," ","c","a","p","a","c","i","t","y"," ","f","a","c","t","o","r","s"," ","a","n","d"," ","p","e","r","f","o","r","m","a","n","c","e"," ","f","o","r"," ","w","i","n","d"," ","f","a","r","m","s"," ">> \o fmt(farm_ids)
        ELSE <<"C","o","m","p","a","r","e"," ","c","a","p","a","c","i","t","y"," ","f","a","c","t","o","r","s"," ","a","n","d"," ","p","e","r","f","o","r","m","a","n","c","e"," ","a","c","r","o","s","s"," ","a","l","l"," ","w","i","n","d"," ","f","a","r","m","s">>,
        "comparison"))

\* analysis_type is None or the name of an intent.
search_notebooks(self, q, analysis_type) ==
    returns(_analyze_pattern_internal(self, q,
        IF analysis_type = "None" THEN "general" ELSE analysis_type))

\* The tool extract_notebook_results: `"data_foundation" in notebook_path`
\* is outside any try.
extract_notebook_results(self, notebook_path, result_type) ==
    IF ~is_text(notebook_path)
    THEN raises("TypeError: argument of type 'NoneType' is not iterable")
    ELSE returns(_analyze_pattern_internal(self,
             <<"E","x","t","r","a","c","t"," ">> \o fmt(result_type) \o <<" ","r","e","s","u","l","t","s"," ","f","r","o","m"," ">> \o notebook_path,
             IF contains(notebook_path, <<"d","a","t","a","_","f","o","u","n","d","a","t","i","o","n">>) THEN "data_quality"
             ELSE IF contains(notebook_path, <<"w","i","n","d","_","p","h","y","s","i","c","s">>) THEN "power_curve"
             ELSE IF contains(notebook_path, <<"m","o","d","e","l","_","e","v","a","l","u","a","t","i","o","n">>) THEN "performance"
             ELSE IF contains(notebook_path, <<"b","u","s","i","n","e","s","s","_","i","m","p","a","c","t">>) THEN "business"
             ELSE "general"))


(***************************************************************************)
(* The tools as a state machine.  The module has been imported: both       *)
(* objects are constructed from notebook_config.json.  Then tools are      *)
(* called one after the other, with arguments of the declared types and    *)
(* with None, an integer or a list where a string or a number is declared. *)
(* The data directory holds no table that can be read.                     *)
(***************************************************************************)
MaxToolCalls == 2

\* The documents both constructors accept: no file; a file with every flag
\* false, with or without the table 'available'; a file with every flag
\* true and the table.
ToolConfigs ==
    { d \in ConfigDocuments :
        /\ ~DataAccess_init(d).raised
        /\ ~QueryRouter_init(d).raised
        /\ d.state = "json" =>
              /\ DOMAIN d.json["notebook_completion"] # {}
              /\ d.json["feature_availability"] \in
                     { [ f \in FlagNames |-> FALSE ], [ f \in FlagNames |-> TRUE ] }
              /\ \/ /\ "available" \notin DOMAIN d.json["model_performance_data"]
                    /\ ~d.json["feature_availability"]["ensemble_predictions"]
                 \/ /\ "available" \in DOMAIN d.json["model_performance_data"]
                    /\ DOMAIN d.json["model_performance_data"].available =
                           {"xgboost", "random_forest"} }

ToolDirectories ==
    { fs \in Directories : \A f \in DOMAIN fs : fs[f] = "missing" }

\* The router after a tool has returned a payload.  The payload of the
\* normal processing holds, under feature_availability, the very dict
\* query_router.model_performance["available"]: what the tool left in it is
\* what the router holds.
query_router_after(self, call) ==
    IF /\ ~call.raised
       /\ "feature_availability" \in DOMAIN call.payload
       /\ "model_performance_data" \in DOMAIN call.payload["feature_availability"]
    THEN [ self EXCEPT !.model_performance =
               ("available" :> call.payload["feature_availability"].model_performance_data) @@
               self.model_performance ]
    ELSE self

\* The configuration the data access object holds.
data_access_config == DataAccess_init(config_file).object.config

InitTools ==
    /\ NormalizeIdle
    /\ RouterIdle
    /\ ReaderIdle
    /\ config_file \in ToolConfigs
    /\ startup = [ data_access |-> "constructed", query_router |-> "constructed" ]
    /\ router = QueryRouter_init(config_file).object
    /\ files \in ToolDirectories
    /\ _cache = EmptyDict
    /\ fetch_calls = 0
    /\ fetch_args = <<>>
    /\ fetch_result = <<>>
    /\ fetch_reads = <<>>
    /\ tool_calls = <<>>
    /\ tool_result = <<>>
    /\ previous_result = <<>>

\* A tool that reads the router only was called and returned or raised.
Called(tool, args, call) ==
    /\ tool_calls' = Append(tool_calls, [ tool |-> tool, args |-> args ])
    /\ previous_result' = tool_result
    /\ tool_result' = [ raised |-> call.raised, payload |-> call.payload ]
    /\ router' = query_router_after(router, call)
    /\ UNCHANGED <<_cache, files, fetch_calls, fetch_args, fetch_result, fetch_reads,
                   normVars, routerVars, startupVars, readerVars>>

\* A tool that uses the data access object was called.
CalledData(tool, args, call) ==
    /\ tool_calls' = Append(tool_calls, [ tool |-> tool, args |-> args ])
    /\ previous_result' = tool_result
    /\ tool_result' = [ raised |-> call.raised, payload |-> call.payload ]
    /\ _cache' = call.cache
    /\ UNCHANGED <<router, files, fetch_calls, fetch_args, fetch_result, fetch_reads,
                   normVars, routerVars, startupVars, readerVars>>

AnalyzeArguments ==
    { << <<"e","n","s","e","m","b","l","e">>, "general" >>, << <<"r","m","s","e"," ","a","t"," ","2","4"," ","h","o","u","r","s">>, "general" >>,
      << None, "general" >> }

ToolAnalyzePattern ==
    /\ Len(tool_calls) < MaxToolCalls
    /\ \E args \in AnalyzeArguments :
         \E call \in { returns(analyze_pattern(router, args[1], args[2])) } :
            Called("analyze_pattern", args, call)

ToolGetWindFarmData ==
    /\ Len(tool_calls) < MaxToolCalls
    /\ \E args \in { << <<"w","p","1">>, <<"p","o","w","e","r","_","c","u","r","v","e">>, TRUE >>,
                     << <<"w","p","1">>, <<"p","o","w","e","r","_","c","u","r","v","e">>, FALSE >>,
                     << Int3, <<"p","o","w","e","r","_","c","u","r","v","e">>, FALSE >> } :
         \E call \in { tool_get_wind_farm_data(_cache, files, args[1], args[2], args[3],
                                               Len(tool_calls) + 1) } :
            CalledData("get_wind_farm_data", args, call)

ToolAnalyzePowerCurves ==
    /\ Len(tool_calls) < MaxToolCalls
    /\ \E args \in { << <<"w","p","1">>, <<"list", << col_capacity_factor, col_cut_in_speed >> >> >>,
                     << <<"w","p","9">>, <<"int", 5>> >> } :
         \E call \in { analyze_power_curves(_cache, files, args[1], args[2]) } :
            CalledData("analyze_power_curves", args, call)

ToolEvaluateForecastPerformance ==
    /\ Len(tool_calls) < MaxToolCalls
    /\ \E args \in { << <<"e","n","s","e","m","b","l","e">>, <<"int", 24>>, <<"R","M","S","E">>, None >>,
                     << None, None, <<"R","M","S","E">>, None >>,
                     << <<"x","g","b","o","o","s","t">>, <<"int", 24>>, <<"R","M","S","E">>, <<"h","i","g","h">> >>,
                     << None, None, None, None >> } :
         \E call \in { evaluate_forecast_performance(router, data_access_config,
                                                     args[1], args[2], args[3], args[4]) } :
            Called("evaluate_forecast_performance", args, call)

ToolQuantifyUncertainty ==
    /\ Len(tool_calls) < MaxToolCalls
    /\ \E args \in { << <<"float", 95>>, <<"int", 24>>, <<"p","o","r","t","f","o","l","i","o">> >>,
                     << <<"9","5","%">>, <<"int", 24>>, <<"p","o","r","t","f","o","l","i","o">> >> } :
         \E call \in { quantify_uncertainty(router, args[1], args[2], args[3]) } :
            Called("quantify_uncertainty", args, call)

ToolCalculateBusinessImpact ==
    /\ Len(tool_calls) < MaxToolCalls
    /\ \E args \in { << <<"int", 15>> >>, << <<"1","5","%">> >> } :
         \E call \in { calculate_business_impact(router, args[1]) } :
            Called("calculate_business_impact", args, call)

ToolCompareModelArchitectures ==
    /\ Len(tool_calls) < MaxToolCalls
    /\ \E args \in { << None, None >>,
                     << <<"list", << <<"int", 1>>, <<"int", 2>> >> >>, None >> } :
         \E call \in { compare_model_architectures(router, args[1], args[2]) } :
            Called("compare_model_architectures", args, call)

ToolAnalyzeFeatureImportance ==
    /\ Len(tool_calls) < MaxToolCalls
    /\ \E args \in { << <<"x","g","b","o","o","s","t">>, <<"int", 10>>, TRUE >> } :
         \E call \in { analyze_feature_importance(router, args[1], args[2], args[3]) } :
            Called("analyze_feature_importance", args, call)

ToolDiagnoseForecastErrors ==
    /\ Len(tool_calls) < MaxToolCalls
    /\ \E args \in { << <<"b","i","a","s">>, <<"W","F","1"," ">>, <<"n","i","g","h","t">> >>, << <<"a","l","l">>, Int3, None >> } :
         \E call \in { diagnose_forecast_errors(router, args[1], args[2], args[3]) } :
            Called("diagnose_forecast_errors", args, call)

ToolSummarizeWindFarm ==
    /\ Len(tool_calls) < MaxToolCalls
    /\ \E args \in { << <<"w","f","1">> >>, << <<"W","F","2">> >>, << <<"3">> >> } :
         \E call \in { summarize_wind_farm(router, args[1]) } :
            Called("summarize_wind_farm", args, call)

ToolCompareWindFarms ==
    /\ Len(tool_calls) < MaxToolCalls
    /\ \E args \in { << <<"w","f","1",","," ","w","f","2">> >> } :
         \E call \in { compare_wind_farms(router, args[1]) } :
            Called("compare_wind_farms", args, call)

ToolSearchNotebooks ==
    /\ Len(tool_calls) < MaxToolCalls
    /\ \E args \in { << <<"f","i","n","a","l"," ","m","o","d","e","l">>, "None" >>, << <<"x">>, "temporal" >> } :
         \E call \in { search_notebooks(router, args[1], args[2]) } :
            Called("search_notebooks", args, call)

ToolExtractNotebookResults ==
    /\ Len(tool_calls) < MaxToolCalls
    /\ \E args \in { << <<"0","1","_","d","a","t","a","_","f","o","u","n","d","a","t","i","o","n",".","i","p","y","n","b">>, <<"a","l","l">> >>, << None, <<"a","l","l">> >> } :
         \E call \in { extract_notebook_results(router, args[1], args[2]) } :
            Called("extract_notebook_results", args, call)

NextTools ==
    \/ ToolAnalyzePattern
    \/ ToolGetWindFarmData
    \/ ToolAnalyzePowerCurves
    \/ ToolEvaluateForecastPerformance
    \/ ToolQuantifyUncertainty
    \/ ToolCalculateBusinessImpact
    \/ ToolCompareModelArchitectures
    \/ ToolAnalyzeFeatureImportance
    \/ ToolDiagnoseForecastErrors
    \/ ToolSummarizeWindFarm
    \/ ToolCompareWindFarms
    \/ ToolSearchNotebooks
    \/ ToolExtractNotebookResults

SpecTools == InitTools /\ [][NextTools]_vars

(***************************************************************************)
(* ParquetDataReader: lazy loading of the tables                           *)
(* (parquet_data_reader.py 70-101).  A table is known by the version of    *)
(* the content of the file it was read from.                               *)
(***************************************************************************)
\* The filenames passed to _load_file: two names of file_mapping.
ReaderFiles == {"power_curve_parameters.parquet", "02_wind_physics_analysis.parquet"}

\* How many contents a file takes in turn.
MaxVersions == 2

\* How many times _load_file is called.
MaxLoads == 3

\* file_path.exists() is false.
NoFile == <<"missing">>

\* The file exists and pd.read_parquet raises on it.
BadFile == <<"unreadable">>

\* The table pd.read_parquet returns for the given content.
table(version) == <<"table", version>>

is_table(state) == Len(state) = 2

ReaderFileStates == {NoFile, BadFile} \cup { table(version) : version \in 1..MaxVersions }

\* _load_file that reads the file again on every call and stores what it read.
_load_file_refreshing(cache, directory, filename) ==
    IF is_table(directory[filename])
    THEN [ value |-> directory[filename],
           read  |-> TRUE,
           cache |-> (filename :> directory[filename]) @@ cache ]
    ELSE [ value |-> None, read |-> directory[filename] = BadFile, cache |-> cache ]

\* self._load_file(filename) on a reader whose _cache is cache: the value
\* returned, whether pd.read_parquet was called, and the _cache afterwards.
_load_file(cache, directory, filename) ==
    IF filename \in DOMAIN cache
    THEN [ value |-> cache[filename], read |-> FALSE, cache |-> cache ]
    ELSE IF directory[filename] = NoFile
    THEN [ value |-> None, read |-> FALSE, cache |-> cache ]
    ELSE IF directory[filename] = BadFile
    THEN [ value |-> None, read |-> TRUE, cache |-> cache ]
    ELSE [ value |-> directory[filename],
           read  |-> TRUE,
           cache |-> (filename :> directory[filename]) @@ cache ]

\* A reader was constructed on some data directory: its _cache is empty.
InitReader ==
    /\ NormalizeIdle
    /\ RouterIdle
    /\ FetchIdle
    /\ ToolsIdle
    /\ StartupIdle
    /\ reader_files \in [ ReaderFiles -> ReaderFileStates ]
    /\ reader_cache = EmptyDict
    /\ reader_calls = <<>>
    /\ reader_result = <<>>
    /\ threads = <<>>

\* One call of _load_file(filename); held is what the directory held then.
LoadFile ==
    /\ Len(reader_calls) < MaxLoads
    /\ \E filename \in ReaderFiles :
       \E call \in { _load_file(reader_cache, reader_files, filename) } :
        /\ reader_calls' = Append(reader_calls, filename)
        /\ reader_result' = [ value |-> call.value,
                              read  |-> call.read,
                              held  |-> reader_files[filename] ]
        /\ reader_cache' = call.cache
        /\ UNCHANGED <<reader_files, threads, normVars, routerVars, fetchVars, toolVars, startupVars>>

\* Outside the program a file of the directory is written, replaced or removed.
DirectoryChanges ==
    /\ \E filename \in ReaderFiles, state \in ReaderFileStates :
        /\ state # reader_files[filename]
        /\ reader_files' = [ reader_files EXCEPT ![filename] = state ]
    /\ UNCHANGED <<reader_cache, reader_calls, reader_result, threads,
                   normVars, routerVars, fetchVars, toolVars, startupVars>>

NextReader == LoadFile \/ DirectoryChanges

SpecReader == InitReader /\ [][NextReader]_vars

(***************************************************************************)
(* Two requests at the same time (parquet_data_reader.py 85-98, server.py  *)
(* 234-261).  Neither cache is guarded by a lock: a request checks the     *)
(* cache, loads, stores and returns in steps of its own, and the steps of  *)
(* two requests interleave.  The files do not change.                      *)
(***************************************************************************)
Threads == {"first", "second"}

\* At most MaxRacePresent files of the directory of DataAccess exist.
MaxRacePresent == 1

RaceDirectories ==
    { fs \in Directories :
        Cardinality({ f \in DOMAIN fs : fs[f] # "missing" }) <= MaxRacePresent }

\* self._cache[key] = value, with nothing stored.
store_dropped(cache, key, value) == cache

\* self._cache[key] = value.
store(cache, key, value) == (key :> value) @@ cache

\* What a request computes once it has found its key missing in the cache:
\* the table of the file, or the mapping of the routed method.
loaded(op, directory, key) ==
    IF op = "_load_file"
    THEN _load_file(EmptyDict, directory, key).value
    ELSE get_wind_farm_data(EmptyDict, directory, key[1], key[2]).result

\* Whether what was computed reaches the statement that stores it.
stores(op, value) ==
    IF op = "_load_file" THEN value # None ELSE "error" \notin DOMAIN value

\* The key of the cache entry of a request.
key_of(op, key) ==
    IF op = "_load_file" THEN key ELSE cache_key(key[1], key[2])

\* A request that has not checked the cache yet; found is what the check saw.
request(op, key) == [ op |-> op, key |-> key, pc |-> "check", found |-> FALSE ]

\* Two requests are in progress, both on the reader or both on the data
\* access object; those on the data access object have the same arguments.
InitRace ==
    /\ NormalizeIdle
    /\ RouterIdle
    /\ ToolsIdle
    /\ StartupIdle
    /\ _cache = EmptyDict
    /\ fetch_calls = 0
    /\ fetch_args = <<>>
    /\ fetch_result = <<>>
    /\ fetch_reads = <<>>
    /\ reader_cache = EmptyDict
    /\ reader_calls = <<>>
    /\ reader_result = <<>>
    /\ \/ /\ files \in ToolDirectories
          /\ reader_files \in [ ReaderFiles -> ReaderFileStates ]
          /\ threads \in [ Threads -> { request("_load_file", f) : f \in ReaderFiles } ]
       \/ /\ files \in RaceDirectories
          /\ reader_files = [ f \in ReaderFiles |-> NoFile ]
          /\ \E arguments \in Requests :
                threads = [ t \in Threads |-> request("get_wind_farm_data", arguments) ]

shared_cache(t) ==
    IF threads[t].op = "_load_file" THEN reader_cache ELSE _cache

directory_of(t) ==
    IF threads[t].op = "_load_file" THEN reader_files ELSE files

entry_of(t) == key_of(threads[t].op, threads[t].key)

RaceFrame ==
    UNCHANGED <<files, fetch_calls, fetch_args, fetch_result, fetch_reads,
                reader_files, reader_calls, reader_result,
                normVars, routerVars, toolVars, startupVars>>

\* `if key in self._cache:`
RaceCheck(t) ==
    /\ threads[t].pc = "check"
    /\ threads' = [ threads EXCEPT ![t] =
                      IF entry_of(t) \in DOMAIN shared_cache(t)
                      THEN [ op |-> @.op, key |-> @.key, pc |-> "fetch", found |-> TRUE ]
                      ELSE [ op |-> @.op, key |-> @.key, pc |-> "load", found |-> FALSE ] ]
    /\ UNCHANGED <<_cache, reader_cache>>
    /\ RaceFrame

\* `return self._cache[key]`
RaceFetch(t) ==
    /\ threads[t].pc = "fetch"
    /\ threads' = [ threads EXCEPT ![t] =
                      [ op |-> @.op, key |-> @.key, pc |-> "done", found |-> @.found,
                        returned |-> shared_cache(t)[entry_of(t)] ] ]
    /\ UNCHANGED <<_cache, reader_cache>>
    /\ RaceFrame

\* The file is read, or the routed method is run: what comes of it is
\* returned at once or goes on to be stored.
RaceLoad(t) ==
    /\ threads[t].pc = "load"
    /\ \E value \in { loaded(threads[t].op, directory_of(t), threads[t].key) } :
         threads' = [ threads EXCEPT ![t] =
                        IF stores(threads[t].op, value)
                        THEN [ op |-> @.op, key |-> @.key, pc |-> "store", found |-> @.found, local |-> value ]
                        ELSE [ op |-> @.op, key |-> @.key, pc |-> "done", found |-> @.found, returned |-> value ] ]
    /\ UNCHANGED <<_cache, reader_cache>>
    /\ RaceFrame

\* `self._cache[key] = value` and the return of the value.
RaceStore(t) ==
    /\ threads[t].pc = "store"
    /\ threads' = [ threads EXCEPT ![t] =
                      [ op |-> @.op, key |-> @.key, pc |-> "done", found |-> @.found, returned |-> @.local ] ]
    /\ IF threads[t].op = "_load_file"
       THEN /\ reader_cache' = store(reader_cache, entry_of(t), threads[t].local)
            /\ UNCHANGED _cache
       ELSE /\ _cache' = store(_cache, entry_of(t), threads[t].local)
            /\ UNCHANGED reader_cache
    /\ RaceFrame

NextRace ==
    \E t \in Threads : RaceCheck(t) \/ RaceFetch(t) \/ RaceLoad(t) \/ RaceStore(t)

SpecRace == InitRace /\ [][NextRace]_vars

(***************************************************************************)
(* get_wind_farm_data over a data directory that changes between the       *)
(* calls (server.py 232-270).                                              *)
(***************************************************************************)
\* The files that come and go: the first two candidates of power_curve.
ChangingFiles == { file_mapping.power_curve[1], file_mapping.power_curve[2] }

\* The data directories: at most one of the files that come and go exists.
ChangingDirectories ==
    { [ f \in Range(DataFiles) |-> IF f = present THEN state ELSE "missing" ] :
        present \in ChangingFiles, state \in FileStates \cup {"missing", "text_values"} }

\* The requests made: a farm and no farm under power_curve, a farm under
\* capacity_factors, a category that is not supported, and an identifier
\* that is not a string under power_curve and under capacity_factors.
RefetchRequests ==
    { << <<"w","p","1">>, <<"p","o","w","e","r","_","c","u","r","v","e">> >>,
      << None, <<"p","o","w","e","r","_","c","u","r","v","e">> >>,
      << <<"w","p","1">>, <<"c","a","p","a","c","i","t","y","_","f","a","c","t","o","r","s">> >>,
      << <<"w","p","1">>, <<"c","u","r","v","e">> >>,
      << Int3, <<"p","o","w","e","r","_","c","u","r","v","e">> >>,
      << Int3, <<"c","a","p","a","c","i","t","y","_","f","a","c","t","o","r","s">> >> }

InitRefetch ==
    /\ NormalizeIdle
    /\ RouterIdle
    /\ ReaderIdle
    /\ ToolsIdle
    /\ StartupIdle
    /\ files \in ChangingDirectories
    /\ _cache = EmptyDict
    /\ fetch_calls = 0
    /\ fetch_args = <<>>
    /\ fetch_result = <<>>
    /\ fetch_reads = <<>>

\* One call of get_wind_farm_data(wind_farm, data_type); seen is the data
\* directory at the time of the call.
Refetch ==
    /\ fetch_calls < MaxCalls
    /\ \E arguments \in RefetchRequests :
       \E call \in { get_wind_farm_data(_cache, files, arguments[1], arguments[2]) } :
        /\ fetch_calls' = fetch_calls + 1
        /\ fetch_args' = Append(fetch_args, arguments)
        /\ fetch_result' = [ raised |-> call.raised, hit |-> call.hit,
                             result |-> call.result, seen |-> files ]
        /\ fetch_reads' = call.reads
        /\ _cache' = call.cache
    /\ UNCHANGED <<files, normVars, routerVars, toolVars, startupVars, readerVars>>

\* Outside the program a file of the data directory is written or removed.
FilesChange ==
    /\ \E fs \in ChangingDirectories :
        /\ fs # files
        /\ files' = fs
    /\ UNCHANGED <<_cache, fetch_calls, fetch_args, fetch_result, fetch_reads,
                   normVars, routerVars, toolVars, startupVars, readerVars>>

NextRefetch == Refetch \/ FilesChange

SpecRefetch == InitRefetch /\ [][NextRefetch]_vars

(***************************************************************************)
(* The lookup of the row of a farm (server.py 404-429), through            *)
(* get_wind_farm_data: one table is in the data directory, and power_curve *)
(* requests are made for identifiers in several forms.                     *)
(***************************************************************************)
\* The tables a directory of the lookup holds.
LookupTables == {"by_id", "by_wf_id", "by_position", "by_rows"}

\* The data directories: nothing, or one table as the first or the second
\* candidate of power_curve.
LookupDirectories ==
    { [ f \in Range(DataFiles) |-> IF f = present THEN state ELSE "missing" ] :
        present \in ChangingFiles, state \in LookupTables \cup {"missing"} }

\* The identifiers asked for: farm 1 in its surface forms, farm 2 in two,
\* farm 3, and farms whose number has two digits.
LookupIdentifiers ==
    { <<"w","p","1">>, <<"w","f","1">>, <<"W","F","1">>, <<"1">>,
      <<"w","i","n","d"," ","f","a","r","m"," ","1">>,
      <<"w","p","2">>, <<"w","f","2">>, <<"w","p","3">>,
      <<"w","p","1","2">>, <<"w","p","1","0">> }

InitLookup ==
    /\ NormalizeIdle
    /\ RouterIdle
    /\ ReaderIdle
    /\ ToolsIdle
    /\ StartupIdle
    /\ files \in LookupDirectories
    /\ _cache = EmptyDict
    /\ fetch_calls = 0
    /\ fetch_args = <<>>
    /\ fetch_result = <<>>
    /\ fetch_reads = <<>>

\* One power_curve request for an identifier.
Lookup ==
    /\ fetch_calls < MaxCalls
    /\ \E wind_farm \in LookupIdentifiers : Call(wind_farm, supported_types[1])

NextLookup == Lookup

SpecLookup == InitLookup /\ [][NextLookup]_vars

(***************************************************************************)
(* Claims about the identifier normalizers (checked under SpecNormalize).  *)
(***************************************************************************)
\* The identifier with its case folded and surrounding whitespace removed.
folded == strip(lower(given))

\* "wp" followed by one or more digits.
IsWpDigits(s) ==
    /\ startswith(s, <<"w","p">>)
    /\ isdigit(SubSeq(s, 3, Len(s)))

\* The supported surface forms of farm number digits: "wf<N>", "wp<N>",
\* "<N>" and "wind farm <N>".
SurfaceForms(digits) ==
    { <<"w","f">> \o digits, <<"w","p">> \o digits, digits,
      <<"w","i","n","d"," ","f","a","r","m"," ">> \o digits }

FarmNumbers == { <<"1">>, <<"2">>, <<"3">>, <<"4">>, <<"5">>, <<"6">>, <<"7">> }

\* A supported surface form of some farm number of one or more digits.
IsSurfaceForm ==
    \E prefix \in { <<"w","f">>, <<"w","p">>, <<>>,
                    <<"w","i","n","d"," ","f","a","r","m"," ">> } :
        /\ startswith(folded, prefix)
        /\ isdigit(SubSeq(folded, Len(prefix) + 1, Len(folded)))

\* C1: normalization is idempotent: in both normalizers, normalizing the
\* value a call returned returns that same value, for every identifier.
C1_NormalizeIdempotent ==
    \A i \in 2..Len(results) : results[i] = results[1]

\* " WF2" has been normalized twice by DataAccess.
C1_Witness ==
    /\ impl = "DataAccess"
    /\ given = <<" ","W","F","2">>
    /\ results = << <<"w","p","2">>, <<"w","p","2">> >>

\* C2: for every farm number N in 1..7, each surface form of farm N ("wfN",
\* "wpN", "N", "wind farm N", in any letter case and with surrounding
\* whitespace) normalizes to "wpN".
C2_SurfaceFormsConverge ==
    \A n \in FarmNumbers :
        (Len(results) >= 1 /\ folded \in SurfaceForms(n))
            => results[1] = <<"w","p">> \o n

\* "Wind Farm 5" has been normalized by the reader to "wp5".
C2_Witness ==
    /\ impl = "ParquetDataReader"
    /\ given = <<"W","i","n","d"," ","F","a","r","m"," ","5">>
    /\ results = << <<"w","p","5">> >>

\* C3 (as claimed): for every non-empty identifier the returned string is
\* "wp" followed by one or more digits.
C3_AlwaysWpDigits ==
    (Len(results) >= 1 /\ given # <<>>) => IsWpDigits(results[1])

\* C3 (amended): for every identifier in a supported surface form
\* ("wf<digits>", "wp<digits>", "<digits>", "wind farm <digits>", in any
\* letter case and with surrounding whitespace) the returned string is "wp"
\* followed by one or more digits.
C3_SurfaceFormIsWpDigits ==
    (Len(results) >= 1 /\ IsSurfaceForm) => IsWpDigits(results[1])

\* The two-digit identifier "12 " has been normalized by the reader.
C3_Witness ==
    /\ impl = "ParquetDataReader"
    /\ given = <<"1","2"," ">>
    /\ results = << <<"w","p","1","2">> >>

\* C4: an identifier (not blank) with no digits that starts with neither
\* "wf" nor "wp" is returned unchanged, apart from lower-casing and trimming.
C4_UnrecognizedUnchanged ==
    ( /\ Len(results) >= 1
      /\ folded # <<>>
      /\ findall_digits(folded) = <<>>
      /\ ~startswith(folded, <<"w","f">>)
      /\ ~startswith(folded, <<"w","p">>) )
        => results[1] = folded

(***************************************************************************)
(* Claims about classify_query (checked under SpecClassify).               *)
(***************************************************************************)
\* The keywords of the whole table.
AllKeywords == UNION { Range(intent_patterns[i]) : i \in Range(IntentOrder) }

\* C5: classify_query never returns an empty list; it returns exactly
\* ["general"] when no keyword of any intent is a substring of the
\* lower-cased query, and "general" never comes with another intent.
C5_NeverEmpty ==
    classify_calls >= 1 =>
        LET query_lower == lower(query)
        IN  /\ intents # <<>>
            /\ (\A k \in AllKeywords : ~contains(query_lower, k))
                  <=> intents = <<"general">>
            /\ "general" \in Range(intents) => intents = <<"general">>

\* The query "x " has been classified as general.
C5_Witness ==
    /\ classify_calls = 1
    /\ query = <<"x"," ">>
    /\ intents = <<"general">>

\* C6: an intent of the table is in the result if and only if one of its
\* keywords is a substring of the lower-cased query, whatever the other
\* intents do; "ensemble" is a keyword of no intent, and "what is the RMSE of
\* the ensemble model" is classified as performance through "rmse" alone.
C6_IntentIffKeyword ==
    /\ <<"e","n","s","e","m","b","l","e">> \notin AllKeywords
    /\ classify_calls >= 1 =>
          LET query_lower == lower(query)
          IN  /\ \A i \in Range(IntentOrder) :
                    (i \in Range(intents)) <=>
                        (\E k \in Range(intent_patterns[i]) : contains(query_lower, k))
              /\ query = RmseEnsembleQuery =>
                    /\ intents = <<"performance">>
                    /\ \A k \in AllKeywords :
                          contains(query_lower, k) <=> k = <<"r","m","s","e">>

\* The RMSE query has been classified.
C6_Witness ==
    /\ classify_calls = 1
    /\ query = RmseEnsembleQuery
    /\ intents = <<"performance">>

\* C7: the classifier is monotonic in keyword presence: with a keyword of
\* intent I appended to the query after a space, the result contains I and
\* every intent that matched the query before.
C7_Monotonic ==
    classify_calls = 2 =>
        /\ added[1] \in Range(intents)
        /\ \A i \in Range(base_intents) \ {"general"} : i \in Range(intents)

\* "co2" has been appended to a query that matched performance and comparison.
C7_Witness ==
    /\ classify_calls = 2
    /\ base_intents = <<"performance", "comparison">>
    /\ added = <<"business", <<"c","o","2">>>>
    /\ intents = <<"performance", "business", "comparison">>

(***************************************************************************)
(* Claims about extract_entities (checked under SpecExtract).              *)
(***************************************************************************)
\* The positions of the lower-cased query where "wf<N>" or "wp<N>" starts.
FarmPositions(ql) ==
    { i \in 1..(Len(ql) - 2) :
        ql[i] = "w" /\ ql[i + 1] \in {"f", "p"} /\ ql[i + 2] \in FarmDigits }

\* The positions of the lower-cased query where "wind farm <N>" starts.
PhrasePositions(ql) ==
    { i \in 1..(Len(ql) - 10) :
        /\ SubSeq(ql, i, i + 9) = <<"w","i","n","d"," ","f","a","r","m"," ">>
        /\ ql[i + 10] \in FarmDigits }

RECURSIVE FarmsFrom(_, _)
\* "wp<N>" for each position of the set, in increasing order of position.
FarmsFrom(ql, positions) ==
    IF positions = {} THEN <<>>
    ELSE LET i == CHOOSE x \in positions : \A y \in positions : x <= y
         IN  << <<"w", "p", ql[i + 2]>> >> \o FarmsFrom(ql, positions \ {i})

\* C8: for a query that mentions farms in wf/wp form, extract_entities
\* returns the farms in order of appearance as "wp<N>", the horizons and the
\* percentages as integers, and no key for a kind that does not occur; for
\* "Compare wf1 and wf3 at 24 hours with 10% improvement" it returns exactly
\* {"wind_farms": ["wp1","wp3"], "horizons": [24], "percentages": [10]}.
C8_ExtractScenario ==
    extract_calls = 1 =>
        LET e == extracted.entities
            ql == lower(query)
        IN  /\ ~extracted.raised
            /\ PhrasePositions(ql) = {} =>
                  IF FarmPositions(ql) = {}
                  THEN "wind_farms" \notin DOMAIN e
                  ELSE /\ "wind_farms" \in DOMAIN e
                       /\ e["wind_farms"] = FarmsFrom(ql, FarmPositions(ql))
            /\ \A k \in DOMAIN e \cap {"horizons", "percentages"} :
                  /\ e[k] # <<>>
                  /\ \A i \in 1..Len(e[k]) : e[k][i] \in Nat
            /\ query = CompareQuery =>
                  e = ("wind_farms" :> << <<"w","p","1">>, <<"w","p","3">> >>)
                      @@ ("horizons" :> <<24>>)
                      @@ ("percentages" :> <<10>>)

\* The scenario query has been extracted from (24 and 10 are integers).
C8_Witness ==
    /\ extract_calls = 1
    /\ query = CompareQuery
    /\ DOMAIN extracted.entities = {"wind_farms", "horizons", "percentages"}
    /\ extracted.entities["horizons"][1] + extracted.entities["percentages"][1] = 34

\* C9: every farm extract_entities returns, whether the query wrote it
\* "wfN", "wpN" or "wind farm N", is "wp" followed by a digit 1..7.
C9_FarmsAreWp ==
    (extract_calls = 1 /\ "wind_farms" \in DOMAIN extracted.entities) =>
        \A i \in 1..Len(extracted.entities["wind_farms"]) :
            extracted.entities["wind_farms"][i] \in { <<"w", "p", d>> : d \in FarmDigits }

last_wind_farm == fetch_args[Len(fetch_args)][1]
last_data_type == fetch_args[Len(fetch_args)][2]

\* The mapping the last call returned.
returned == fetch_result.result

\* The files the last call read, that is, opened without an exception.
files_read == { f \in Range(fetch_reads) : files[f] # "unreadable" }

\* The last call extracted no value.
nothing_matched ==
    /\ get(returned, "power_curve_parameters", EmptyDict) = EmptyDict
    /\ get(returned, "capacity_factors", EmptyDict) = EmptyDict
    /\ get(returned, "data_quality_metrics", EmptyDict) = EmptyDict

\* C11 as stated: get_wind_farm_data never raises, and the mapping it returns
\* always contains the requested identifier, the requested category and a
\* source_files list, which is empty if nothing matched.
C11_AlwaysIdentifierCategorySources ==
    fetch_calls > 0 =>
        /\ ~fetch_result.raised
        /\ {"wind_farm", "data_type", "source_files"} \subseteq DOMAIN returned
        /\ returned.wind_farm = last_wind_farm
        /\ returned.data_type = last_data_type
        /\ nothing_matched => returned.source_files = <<>>

\* C11 amended: get_wind_farm_data never raises.  A call that finds its cache
\* key in the cache returns the stored mapping.  Otherwise, for a supported
\* category the mapping contains the requested identifier, the requested
\* category and a source_files list that names exactly the candidate files
\* that were read, whether or not anything matched in them; for any other
\* category the mapping holds an error and the supported types only.
C11_ComputedShape ==
    fetch_calls > 0 =>
        /\ ~fetch_result.raised
        /\ IF fetch_result.hit
           THEN returned = _cache[cache_key(last_wind_farm, last_data_type)]
           ELSE IF last_data_type \in Range(supported_types)
           THEN /\ {"wind_farm", "data_type", "source_files"} \subseteq DOMAIN returned
                /\ returned.wind_farm = last_wind_farm
                /\ returned.data_type = last_data_type
                /\ Range(returned.source_files) = files_read
           ELSE DOMAIN returned = {"error", "supported_types"}

\* A farm of no table is requested while a table can be read and another file
\* cannot: nothing matches, and the table read is listed.
C11_Witness ==
    /\ fetch_calls = 1
    /\ last_wind_farm = <<"w","p","9">>
    /\ last_data_type = <<"p","o","w","e","r","_","c","u","r","v","e">>
    /\ \E f \in Range(fetch_reads) : files[f] = "unreadable"
    /\ nothing_matched
    /\ Len(returned.source_files) = 1

\* C12 as stated: a power_curve fetch for an identifier that is in no table,
\* with candidate files present and readable, returns empty
\* power_curve_parameters, an empty source_files list and no error.
C12_NoMatchNoSources ==
    ( /\ fetch_calls > 0
      /\ last_wind_farm = <<"w","p","9">>
      /\ last_data_type = <<"p","o","w","e","r","_","c","u","r","v","e">>
      /\ \E f \in Range(file_mapping.power_curve) : files[f] # "missing"
      /\ \A f \in Range(file_mapping.power_curve) : files[f] # "unreadable" )
    => /\ returned.power_curve_parameters = EmptyDict
       /\ returned.source_files = <<>>
       /\ "error" \notin DOMAIN returned

\* C12 amended: such a fetch returns empty power_curve_parameters and
\* capacity_factors and no error, and its source_files list names every
\* candidate file that exists, in priority order.
C12_NoMatchListsFilesRead ==
    ( /\ fetch_calls > 0
      /\ last_wind_farm = <<"w","p","9">>
      /\ last_data_type = <<"p","o","w","e","r","_","c","u","r","v","e">>
      /\ \E f \in Range(file_mapping.power_curve) : files[f] # "missing"
      /\ \A f \in Range(file_mapping.power_curve) : files[f] # "unreadable" )
    => /\ returned.power_curve_parameters = EmptyDict
       /\ returned.capacity_factors = EmptyDict
       /\ returned.source_files =
              SelectSeq(file_mapping.power_curve, LAMBDA f : files[f] # "missing")
       /\ returned.metadata.files_processed = Len(returned.source_files)
       /\ "error" \notin DOMAIN returned

\* Farm wp9 is requested from a directory with a table that has an identifier
\* column and a table that has none.
C12_Witness ==
    /\ fetch_calls = 1
    /\ last_wind_farm = <<"w","p","9">>
    /\ last_data_type = <<"p","o","w","e","r","_","c","u","r","v","e">>
    /\ { files[f] : f \in Range(returned.source_files) } = {"by_id", "by_position"}
    /\ returned.power_curve_parameters = EmptyDict

\* The candidate files of power_curve that exist, in priority order.
existing_candidates ==
    SelectSeq(file_mapping.power_curve, LAMBDA f : files[f] # "missing")

\* The sequence up to and including its first element of the set, or all of
\* it if it has none.
up_to_first(seq, set) ==
    IF \E i \in 1..Len(seq) : seq[i] \in set
    THEN SubSeq(seq, 1, CHOOSE i \in 1..Len(seq) :
                          /\ seq[i] \in set
                          /\ \A j \in 1..(i - 1) : seq[j] \notin set)
    ELSE seq

\* What the tables hold: a cut-in speed for farm wp1 and for the average in a
\* table with an identifier column; a capacity factor for wp1, wp2 and the
\* average there, and for the first farm and the average in a table without.
holds_parameter(f, id) == files[f] = "by_id" /\ id \in { None, <<"w","p","1">> }
holds_capacity_factor(f, id) ==
    \/ files[f] = "by_id" /\ id \in { None, <<"w","p","1">>, <<"w","f","2">> }
    \/ files[f] = "by_position" /\ id \in { None, <<"w","p","1">> }

\* The files the values of a dict of the result were read from.
files_of(dict) == { DataFiles[file_of(dict[k])] : k \in DOMAIN dict }

\* The last call computed a power_curve result for an identifier.
identifier_fetch ==
    /\ fetch_calls > 0
    /\ ~fetch_result.hit
    /\ last_data_type = <<"p","o","w","e","r","_","c","u","r","v","e">>
    /\ truthy(last_wind_farm)
    /\ is_str(last_wind_farm)

\* The last call computed a power_curve result for no identifier.
aggregate_fetch ==
    /\ fetch_calls > 0
    /\ ~fetch_result.hit
    /\ last_data_type = <<"p","o","w","e","r","_","c","u","r","v","e">>
    /\ last_wind_farm = None

C14_AggregateReadsAll ==
    aggregate_fetch =>
        /\ fetch_reads = existing_candidates
        /\ files_of(returned.capacity_factors) =
               { f \in files_read : holds_capacity_factor(f, None) }

\* C14 amended: without an identifier the fetch merges the aggregates of the
\* candidates in priority order and, as with an identifier, stops at the first
\* file that yields an average power-curve parameter: it goes past a file
\* that yields average capacity factors only, and reads every existing
\* candidate only if none yields a parameter.
C14_AggregateStopsAtFirstParameter ==
    aggregate_fetch =>
        LET stopping == { f \in Range(DataFiles) : holds_parameter(f, None) }
        IN /\ fetch_reads = up_to_first(existing_candidates, stopping)
           /\ Range(returned.source_files) = files_read
           /\ files_of(returned.power_curve_parameters) = files_read \cap stopping
           /\ DOMAIN returned.capacity_factors =
                  { <<"a","v","e","r","a","g","e","_">> \o col_capacity_factor :
                      f \in { g \in files_read : files[g] = "by_id" } } \cup
                  { <<"a","v","e","r","a","g","e","_">> \o col_mean_capacity_factor :
                      f \in { g \in files_read : files[g] = "by_position" } }

\* The averages of a table without a cut-in speed are merged with those of
\* the next table, which has one, and a third file is left unread.
C14_Witness ==
    /\ aggregate_fetch
    /\ Len(fetch_reads) = 2
    /\ Len(existing_candidates) = 3
    /\ Cardinality(DOMAIN returned.capacity_factors) = 2
    /\ Cardinality(files_of(returned.power_curve_parameters)) = 1

(***************************************************************************)
(* Claims about the start of the server (checked under SpecStartup).       *)
(***************************************************************************)
\* C18: startup is never fatal because of the configuration: for every state
\* of the configuration document (absent, well-formed, malformed, lacking a
\* section) the construction of DataAccess and of QueryRouter completes.
C18_StartupNeverFatal ==
    /\ startup.data_access # "raised"
    /\ startup.query_router # "raised"

(***************************************************************************)
(* Claims about the feature gating of analyze_pattern (checked under       *)
(* SpecAnalyze).                                                           *)
(***************************************************************************)
\* The arguments of the first call of analyze_pattern.
analyze_call == tool_calls[1]

\* The flag of the configuration is false.
flag_false(flag) ==
    flag \in DOMAIN router.feature_availability /\ router.feature_availability[flag] = FALSE

\* The query mentions a capability whose flag is false in the configuration.
mentions_unavailable(q) ==
    \/ contains(lower(q), <<"e","n","s","e","m","b","l","e">>) /\ flag_false("ensemble_predictions")
    \/ any_keyword_in(uncertainty_words, lower(q)) /\ flag_false("uncertainty_quantification")
    \/ any_keyword_in(comprehensive_words, lower(q)) /\ flag_false("comprehensive_evaluation")

\* The payload marks itself as a fallback.
marks_fallback(payload) ==
    /\ "routing_decision" \in DOMAIN payload
    /\ payload["routing_decision"] = "fallback_response"
    /\ "status" \in DOMAIN payload
    /\ payload["status"] = "not_implemented"

\* C15: with a configuration in which the flag of a capability is false,
\* every call of analyze_pattern whose query mentions the capability
\* returns a payload with routing_decision "fallback_response" and status
\* "not_implemented" and without analysis_prompt or workflow_steps, and the
\* same call made again returns an equal payload.
C15_GatingDeterministicComplete ==
    (tool_calls # <<>> /\ mentions_unavailable(analyze_call.query)) =>
        /\ marks_fallback(tool_result)
        /\ "analysis_prompt" \notin DOMAIN tool_result
        /\ "workflow_steps" \notin DOMAIN tool_result
        /\ Len(tool_calls) = 2 => previous_result = tool_result


\* The gating of C15 under the configurations whose table of model
\* performance has the key 'available': there it holds.
C15_GatingWithAvailableTable ==
    "available" \in DOMAIN router.model_performance => C15_GatingDeterministicComplete

\* The payload names a model together with a number of the table of model
\* performance of the configuration.
names_model_with_metric(payload) ==
    /\ "specific_data" \in DOMAIN payload
    /\ "best_available_model" \in DOMAIN payload["specific_data"]
    /\ "best_rmse_24h" \in DOMAIN payload["specific_data"]
    /\ payload["specific_data"].best_rmse_24h[1] = "number"
    /\ \E model \in DOMAIN router.model_performance.available :
          /\ "rmse_24h" \in DOMAIN router.model_performance.available[model]
          /\ router.model_performance.available[model].rmse_24h =
                 payload["specific_data"].best_rmse_24h

names_no_model(payload) ==
    /\ "specific_data" \in DOMAIN payload
    /\ DOMAIN payload["specific_data"] \cap
           {"best_available_model", "best_rmse_24h", "improvement_over_persistence"} = {}
    /\ "alternatives" \in DOMAIN payload
    /\ \A i \in 1..Len(payload["alternatives"]) : Len(payload["alternatives"][i]) = 1

\* The value the ensemble fallback reports as best_rmse_24h: the number the
\* configuration gives for xgboost, or the text '0.067' of the code.
expected_best_rmse ==
    IF /\ "xgboost" \in DOMAIN router.model_performance.available
       /\ "rmse_24h" \in DOMAIN router.model_performance.available["xgboost"]
    THEN router.model_performance.available["xgboost"].rmse_24h
    ELSE <<"str", "0.067">>

last_call == tool_calls[Len(tool_calls)]

\* C17: every call of a tool returns a mapping; none raises to its caller.
C17_EveryToolTotal ==
    tool_calls # <<>> => ~tool_result.raised

\* The router as QueryRouter() built it from the configuration.
constructed_router == QueryRouter_init(config_file).object

\* C19: after any sequence of tool calls the router holds the tables it was
\* constructed with (feature flags, notebook status, model performance and
\* prompt fragments), and analyze_pattern returns the payload it would
\* return as the first call on the router as constructed.
C19_RouterKeepsNoState ==
    /\ router = constructed_router
    /\ (tool_calls # <<>> /\ last_call.tool = "analyze_pattern") =>
           tool_result.payload =
               analyze_pattern(constructed_router, last_call.args[1], last_call.args[2])

\* analyze_pattern returned the normal payload right after
\* evaluate_forecast_performance had returned, with its additions, a
\* payload that holds the router's table of model performance.
C19_Witness ==
    /\ Len(tool_calls) = 2
    /\ tool_calls[1].tool = "evaluate_forecast_performance"
    /\ ~previous_result.raised
    /\ "model_performance" \in DOMAIN previous_result.payload
    /\ "feature_availability" \in DOMAIN previous_result.payload
    /\ tool_calls[2].tool = "analyze_pattern"
    /\ "analysis_prompt" \in DOMAIN tool_result.payload
    /\ "xgboost" \in DOMAIN tool_result.payload["feature_availability"].model_performance_data

(***************************************************************************)
(* Claims about the cache of ParquetDataReader (checked under SpecReader). *)
(***************************************************************************)
\* This step is a call of _load_file(filename).
loads(filename) == reader_calls' = Append(reader_calls, filename)

\* No step removes or replaces an entry of the cache.
entries_kept ==
    \A filename \in DOMAIN reader_cache :
        /\ filename \in DOMAIN reader_cache'
        /\ reader_cache'[filename] = reader_cache[filename]

\* A call for a cached name returns the stored table without a disk read.
served_from_cache(filename) ==
    /\ reader_result'.value = reader_cache[filename]
    /\ ~reader_result'.read
    /\ reader_cache' = reader_cache

\* A call for a name not cached, whose file holds a table, reads and stores it.
read_and_stored(filename) ==
    /\ reader_result'.value = reader_files[filename]
    /\ reader_result'.read
    /\ DOMAIN reader_cache' = DOMAIN reader_cache \cup {filename}
    /\ reader_cache'[filename] = reader_files[filename]

\* A call that fails returns None and stores nothing.
nothing_stored ==
    /\ reader_result'.value = None
    /\ reader_cache' = reader_cache

load_contract(filename) ==
    IF filename \in DOMAIN reader_cache THEN served_from_cache(filename)
    ELSE IF is_table(reader_files[filename]) THEN read_and_stored(filename)
    ELSE nothing_stored

\* C20: the reader loads tables lazily and caches them by filename for its
\* life: the first successful _load_file(f) reads the file and stores the
\* table, every later _load_file(f) returns the stored table without a disk
\* read whatever the file has become, no step removes or replaces a cache
\* entry, and a failed load stores nothing.
C20_TablesCachedForLife ==
    [][ /\ entries_kept
        /\ \A filename \in ReaderFiles : loads(filename) => load_contract(filename)
      ]_vars

\* Nothing is in the cache that no call has asked for.
C20_LoadedLazily ==
    \A filename \in DOMAIN reader_cache :
        \E i \in 1..Len(reader_calls) : reader_calls[i] = filename

\* A stored table was returned although the file now holds something else.
C20_Witness ==
    /\ Len(reader_calls) >= 2
    /\ reader_result.value # None
    /\ ~reader_result.read
    /\ reader_result.held # reader_result.value
    /\ reader_result.value = reader_cache[reader_calls[Len(reader_calls)]]

(***************************************************************************)
(* Claims about requests made at the same time (checked under SpecRace).   *)
(***************************************************************************)
\* What the request of a thread returns and leaves in a cache that was empty,
\* when it runs alone.
alone(t) ==
    IF threads[t].op = "_load_file"
    THEN once(_load_file(EmptyDict, reader_files, threads[t].key),
              LAMBDA call : [ returned |-> call.value, cache |-> call.cache ])
    ELSE once(get_wind_farm_data(EmptyDict, files, threads[t].key[1], threads[t].key[2]),
              LAMBDA call : [ returned |-> call.result, cache |-> call.cache ])

\* Every request for the entry of thread t has returned.
all_returned(t) ==
    \A other \in Threads : entry_of(other) = entry_of(t) => threads[other].pc = "done"

summary_keys == {"wind_farm", "performance_metrics", "estimated_annual_metrics"}

\* C22: summarize_wind_farm, given "wf1", "WF2" or "3", returns a mapping
\* that carries an error key or else identifies the farm under wind_farm
\* and carries performance_metrics and estimated_annual_metrics.
C22_SummaryIdentifiesFarm ==
    (tool_calls # <<>> /\ last_call.tool = "summarize_wind_farm") =>
        /\ ~tool_result.raised
        /\ \/ "error" \in DOMAIN tool_result.payload
           \/ summary_keys \subseteq DOMAIN tool_result.payload


(***************************************************************************)
(* Claims about the cache of DataAccess over a directory that changes      *)
(* (checked under SpecRefetch).                                            *)
(***************************************************************************)
\* This step is a call of get_wind_farm_data with the given arguments.
fetches(arguments) == fetch_args' = Append(fetch_args, arguments)

\* The call before this one had the same arguments and returned an error.
follows_error(arguments) ==
    /\ fetch_calls > 0
    /\ fetch_args[fetch_calls] = arguments
    /\ "error" \in DOMAIN fetch_result.result

\* What a call computes from the files when it finds nothing in the cache.
computed(fs, arguments) ==
    get_wind_farm_data(EmptyDict, fs, arguments[1], arguments[2])

refetch_contract(arguments) ==
    LET key == cache_key(arguments[1], arguments[2]) IN
    /\ ~fetch_result'.raised
    /\ key \in DOMAIN _cache =>
          /\ fetch_result'.hit
          /\ fetch_result'.result = _cache[key]
          /\ fetch_reads' = <<>>
          /\ _cache' = _cache
    /\ "error" \notin DOMAIN fetch_result'.result =>
          /\ key \in DOMAIN _cache'
          /\ _cache'[key] = fetch_result'.result
    /\ "error" \in DOMAIN fetch_result'.result => _cache' = _cache
    /\ follows_error(arguments) =>
          /\ ~fetch_result'.hit
          /\ fetch_result'.result = computed(files, arguments).result

\* C23: get_wind_farm_data stores successful results only and never
\* refreshes them.  Once a mapping without an error key is stored under the
\* key of a request, every later call for it returns that mapping and reads
\* no file, whatever the files have become; no entry is removed or
\* replaced; a mapping with an error key is not stored, and the same
\* request made next computes its result again.
C23_SuccessesCachedNeverRefreshed ==
    [][ /\ \A key \in DOMAIN _cache :
              key \in DOMAIN _cache' /\ _cache'[key] = _cache[key]
        /\ \A key \in DOMAIN _cache' : "error" \notin DOMAIN _cache'[key]
        /\ \A arguments \in RefetchRequests :
              fetches(arguments) => refetch_contract(arguments)
      ]_vars

\* The same request twice: the second call returned the stored mapping
\* although the files it was called on give another one.
C23_Witness ==
    /\ fetch_calls >= 2
    /\ fetch_args[fetch_calls] = fetch_args[fetch_calls - 1]
    /\ fetch_result.hit
    /\ fetch_reads = <<>>
    /\ computed(fetch_result.seen, fetch_args[fetch_calls]).result # fetch_result.result

\* The same request twice, an error each time: the second call computed it.
C23_WitnessError ==
    /\ fetch_calls >= 2
    /\ fetch_args[fetch_calls] = fetch_args[fetch_calls - 1]
    /\ ~fetch_result.hit
    /\ "error" \in DOMAIN fetch_result.result


(***************************************************************************)
(* Claims about exceptions inside extraction (checked under SpecRefetch).  *)
(***************************************************************************)
\* The categories built from the power-curve fetch, and that fetch itself.
power_curve_built ==
    { supported_types[1], supported_types[2], supported_types[4] }

\* While the last call computed its result, an exception was raised inside
\* the extraction: normalize_wind_farm_id on an identifier that is not a
\* string, or float() inside _extract_farm_data on a table that was read.
raised_while_extracting ==
    LET arguments == fetch_args[fetch_calls]
        wind_farm == arguments[1]
    IN /\ arguments[2] \in power_curve_built
       /\ truthy(wind_farm)
       /\ \/ ~is_str(wind_farm)
          \/ /\ is_str(wind_farm)
             /\ \E i \in 1..Len(fetch_reads) :
                  /\ fetch_result.seen[fetch_reads[i]] # "unreadable"
                  /\ extraction_raises(
                         read_parquet(fetch_reads[i], fetch_result.seen[fetch_reads[i]]),
                         normalize_wind_farm_id(wind_farm), wind_farm)

\* C24: an exception raised inside an extraction step is recorded in the
\* mapping returned under an error key, for every category, capacity_factors
\* and summary included.
C24_ExtractionErrorRecorded ==
    (fetch_calls > 0 /\ ~fetch_result.hit /\ raised_while_extracting) =>
        "error" \in DOMAIN fetch_result.result

\* Only the power-curve fetch of an identifier that is not a string records
\* the exception.
C24_RecordedOnlyByPowerCurveOfNonString ==
    (fetch_calls > 0 /\ ~fetch_result.hit /\ raised_while_extracting) =>
        ("error" \in DOMAIN fetch_result.result <=>
            /\ fetch_args[fetch_calls][2] = supported_types[1]
            /\ ~is_str(fetch_args[fetch_calls][1]))


(***************************************************************************)
(* Claims about the lookup of the row of a farm (checked under SpecLookup).*)
(***************************************************************************)
\* The supported surface forms of farm 1 and of farm 2 that are asked for.
forms_of_farm ==
    << { <<"w","p","1">>, <<"w","f","1">>, <<"W","F","1">>, <<"1">>,
         <<"w","i","n","d"," ","f","a","r","m"," ","1">> },
       { <<"w","p","2">>, <<"w","f","2">> } >>

\* The table of the directory, if it holds one.
the_table ==
    LET present == { f \in DOMAIN files : files[f] # "missing" } IN
    IF present = {} THEN "missing" ELSE files[CHOOSE f \in present : TRUE]

\* The values a power_curve request extracts.
values_of(result) ==
    << result.power_curve_parameters, result.capacity_factors >>

\* What a power_curve request for an identifier extracts from the files.
extracted_for(wind_farm) ==
    values_of(get_wind_farm_data(EmptyDict, files, wind_farm, supported_types[1]).result)

\* The values of row r of the table with an identifier column.
row_values(r) ==
    LET f == file_number(CHOOSE g \in DOMAIN files : files[g] # "missing") IN
    << <<"c","u","t","_","i","n","_","s","p","e","e","d">> :> stamp(f, r, 1),
       col_capacity_factor :> stamp(f, r, 2) >>

\* The last call computed its result for a form of farm n from a table with
\* an identifier column whose labels are wfN.
looked_up(n, kind) ==
    /\ fetch_calls > 0
    /\ ~fetch_result.hit
    /\ the_table = kind
    /\ fetch_args[fetch_calls][1] \in forms_of_farm[n]

\* C25: with an identifier column, the row labelled "wfN" or "wpN" is found
\* for farm N whichever supported surface form the caller used, so the
\* requests "wfN" and "wpN" extract the same values from the same table.
C25_RowFoundInEveryForm ==
    \A n \in 1..2 :
        (looked_up(n, "by_id") \/ looked_up(n, "by_wf_id")) =>
            /\ values_of(fetch_result.result) # values_of(no_metrics)
            /\ \A other \in forms_of_farm[n] :
                  extracted_for(other) = values_of(fetch_result.result)

\* Where the labels are "wpN" the row is found in every form; where they are
\* "wfN" it is found for the forms that themselves start with "wf".
C25_RowFoundByCanonicalOrOwnForm ==
    \A n \in 1..2 :
        /\ looked_up(n, "by_id") =>
              values_of(fetch_result.result) # values_of(no_metrics)
        /\ looked_up(n, "by_wf_id") =>
              (values_of(fetch_result.result) = row_values(n)
                 <=> startswith(lower(fetch_args[fetch_calls][1]), <<"w","f">>))
        /\ (looked_up(n, "by_wf_id")
              /\ ~startswith(lower(fetch_args[fetch_calls][1]), <<"w","f">>)) =>
              values_of(fetch_result.result) = values_of(no_metrics)


\* The number of the farm of a canonical identifier that is asked for.
farm_number(wind_farm) ==
    IF wind_farm = <<"w","p","1","2">> THEN 12
    ELSE IF wind_farm = <<"w","p","1","0">> THEN 10
    ELSE int_value(<< wind_farm[3] >>)

canonical_identifiers ==
    { <<"w","p","1">>, <<"w","p","2">>, <<"w","p","3">>,
      <<"w","p","1","2">>, <<"w","p","1","0">> }

\* What is extracted from row r of the table of the directory, and nothing
\* when the table has no such row.
row_extract(r) ==
    LET g == CHOOSE f \in DOMAIN files : files[f] # "missing"
        df == read_parquet(g, files[g])
    IN IF 1 <= r /\ r <= Len(df.rows)
       THEN values_of(metrics_or_nothing(df, df.rows[r]))
       ELSE values_of(no_metrics)

\* The last call computed its result for a canonical identifier from a
\* table without an identifier column.
positional ==
    /\ fetch_calls > 0
    /\ ~fetch_result.hit
    /\ the_table \in {"by_position", "by_rows"}
    /\ fetch_args[fetch_calls][1] \in canonical_identifiers

\* C26: from a table with no identifier column and at most 7 rows, a request
\* for "wp<N>" extracts the values of the row at index N-1 if that row
\* exists and nothing otherwise: never the row of another farm.
C26_PositionalRowOfFarm ==
    positional =>
        values_of(fetch_result.result) =
            row_extract(farm_number(fetch_args[fetch_calls][1]))

\* The row taken is the one of the last digit of the identifier.
C26_PositionalRowOfLastDigit ==
    positional =>
        values_of(fetch_result.result) =
            row_extract(farm_number(fetch_args[fetch_calls][1]) % 10)


(***************************************************************************)
(* A further claim about the normalizers (checked under SpecNormalize).    *)
(***************************************************************************)
\* C27: for an identifier that starts with "wf" the normalizer replaces that
\* leading prefix only and leaves the rest as it was; for one that starts
\* with neither "wf" nor "wp" it returns "wp" and the first run of digits of
\* the identifier.
C27_PrefixOnlyElseFirstDigits ==
    Len(results) >= 1 =>
        /\ startswith(folded, <<"w","f">>) =>
              results[1] = <<"w","p">> \o SubSeq(folded, 3, Len(folded))
        /\ ( /\ ~startswith(folded, <<"w","f">>)
             /\ ~startswith(folded, <<"w","p">>)
             /\ findall_digits(folded) # <<>> ) =>
              results[1] = <<"w","p">> \o findall_digits(folded)[1]

\* The reader keeps the second rule; both normalizers replace every "wf".
C27_EveryWfReplacedReaderFirstDigits ==
    Len(results) >= 1 =>
        /\ startswith(folded, <<"w","f">>) =>
              results[1] = replace(folded, <<"w","f">>, <<"w","p">>)
        /\ ( /\ impl = "ParquetDataReader"
             /\ ~startswith(folded, <<"w","f">>)
             /\ ~startswith(folded, <<"w","p">>)
             /\ findall_digits(folded) # <<>> ) =>
              results[1] = <<"w","p">> \o findall_digits(folded)[1]


(***************************************************************************)
(* A further claim about the cache of DataAccess (checked under SpecFetch).*)
(***************************************************************************)
\* C28: the mapping a call returns was computed for exactly its pair of
\* arguments, so a request with a category that is not supported returns
\* the "Unknown data_type" error mapping.
C28_EntriesIsolatedPerRequest ==
    fetch_calls > 0 =>
        fetch_result.result =
            computed(files, fetch_args[fetch_calls]).result

\* Two requests share an entry exactly when the texts of their keys are the same.
C28_EntriesSharedByKeyText ==
    (fetch_calls = 2 /\ fetch_result.hit) =>
        /\ cache_key(fetch_args[1][1], fetch_args[1][2]) =
               cache_key(fetch_args[2][1], fetch_args[2][2])
        /\ fetch_result.result = computed(files, fetch_args[1]).result


(***************************************************************************)
(* A claim about the tool get_wind_farm_data (checked under SpecTools).    *)
(***************************************************************************)
enhanced_fields ==
    { "source", "cache_status", "data_access_status", "available_data_types" }

\* The mapping holds one of the fields the tool adds on request.
has_enhanced(payload) ==
    /\ "metadata" \in DOMAIN payload
    /\ enhanced_fields \cap DOMAIN payload.metadata # {}

\* The last call was the tool get_wind_farm_data without include_metadata.
fetched_plainly ==
    /\ tool_calls # <<>>
    /\ tool_calls[Len(tool_calls)].tool = "get_wind_farm_data"
    /\ ~tool_calls[Len(tool_calls)].args[3]
    /\ ~tool_result.raised

\* An earlier call of the tool asked for the metadata of the same entry.
enhanced_before ==
    \E i \in 1..(Len(tool_calls) - 1) :
        /\ tool_calls[i].tool = "get_wind_farm_data"
        /\ tool_calls[i].args[3]
        /\ cache_key(tool_calls[i].args[1], tool_calls[i].args[2]) =
               cache_key(tool_calls[Len(tool_calls)].args[1],
                         tool_calls[Len(tool_calls)].args[2])

\* C29: a call of the tool get_wind_farm_data with include_metadata=False
\* returns a mapping without the enhanced metadata fields, whatever calls
\* were made before it.
C29_PlainFetchWithoutEnhancedMetadata ==
    fetched_plainly => ~has_enhanced(tool_result.payload)

\* The fields are returned to a plain call exactly when an earlier call left
\* them in the entry of the cache.
C29_EnhancedMetadataStaysInCache ==
    fetched_plainly =>
        /\ has_enhanced(tool_result.payload) <=>
               /\ enhanced_before
               /\ "error" \notin DOMAIN tool_result.payload
        /\ "error" \notin DOMAIN tool_result.payload =>
               _cache[cache_key(tool_calls[Len(tool_calls)].args[1],
                                tool_calls[Len(tool_calls)].args[2])] = tool_result.payload


(***************************************************************************)
(* A further claim about the gating rules (checked under SpecAnalyze).     *)
(***************************************************************************)
\* The payload returned is the fallback of the ensemble feature.
ensemble_fallback ==
    /\ tool_calls # <<>>
    /\ {"feature_requested", "status"} \subseteq DOMAIN tool_result
    /\ tool_result["feature_requested"] = "ensemble_modeling"
    /\ tool_result["status"] = "not_implemented"

\* The query of the last call mentions the word, whatever its case.
mentions(word) ==
    /\ is_str(tool_calls[Len(tool_calls)].query)
    /\ contains(lower(tool_calls[Len(tool_calls)].query), word)

\* C30: the not-implemented fallback of ensemble_modeling is returned only
\* when the flag ensemble_predictions is false.
C30_EnsembleFallbackOnlyWhenFlagFalse ==
    ensemble_fallback => ~feature_available(router, "ensemble_predictions")

\* With the flag true the fallback is returned to the queries that mention
\* "ensemble", "24" and "hour" together, and to no other.
C30_EnsembleFallbackAlsoAt24Hours ==
    ensemble_fallback =>
        /\ mentions(<<"e","n","s","e","m","b","l","e">>)
        /\ feature_available(router, "ensemble_predictions") =>
               /\ mentions(<<"2","4">>)
               /\ mentions(<<"h","o","u","r">>)

====
